---- MODULE Spec2Model ----
(***************************************************************************)
(* Model of the image upload pipeline of sentul-golf-be (package utils:    *)
(* ValidateImageFile, verifyMagicBytes, isValidHEIC, SaveImage,            *)
(* DeleteImage, ValidateImageBuffer).                                      *)
(*                                                                         *)
(* Strings (file names, paths, URLs) are sequences of tokens: a token is   *)
(* either one of the separators "/" and "." or a maximal run of other      *)
(* characters, so "a.JPG" is <<"a", ".", "JPG">> and string concatenation  *)
(* is \o.  Byte sequences are kept run-length encoded: [head, fill] is the *)
(* bytes of head followed by fill zero bytes, head never ending in a zero. *)
(***************************************************************************)
EXTENDS Integers, Sequences, FiniteSets, TLC

(* ------------------------------------------------------------------ *)
(* Program constants                                                   *)
(* ------------------------------------------------------------------ *)
MaxImageSize == 5242880

SniffLen == 512

UploadDir == <<".", "/", "uploads">>

allowedMimeTypes == {"image/jpeg", "image/jpg", "image/png", "image/heic", "image/webp"}

allowedExtensions == { <<".", "jpg">>, <<".", "jpeg">>, <<".", "png">>,
                       <<".", "heic">>, <<".", "webp">> }

(* ------------------------------------------------------------------ *)
(* Byte sequences                                                      *)
(* ------------------------------------------------------------------ *)
Min(a, b) == IF a < b THEN a ELSE b

RECURSIVE StripZeros(_)
StripZeros(s) ==
    IF s # <<>> /\ s[Len(s)] = 0 THEN StripZeros(SubSeq(s, 1, Len(s) - 1)) ELSE s

\* canonical form of head ++ 0^fill
Bytes(head, fill) ==
    LET h == StripZeros(head)
    IN  [head |-> h, fill |-> fill + (Len(head) - Len(h))]

NoBytes == Bytes(<<>>, 0)

BLen(c) == Len(c.head) + c.fill

\* the byte at 0-based offset i (i < BLen(c))
At(c, i) == IF i < Len(c.head) THEN c.head[i + 1] ELSE 0

\* c[:k]
Take(c, k) ==
    IF k >= BLen(c) THEN c
    ELSE IF k <= Len(c.head) THEN Bytes(SubSeq(c.head, 1, k), 0)
    ELSE [head |-> c.head, fill |-> k - Len(c.head)]

\* c[k:]
Drop(c, k) ==
    IF k >= BLen(c) THEN NoBytes
    ELSE IF k <= Len(c.head) THEN Bytes(SubSeq(c.head, k + 1, Len(c.head)), c.fill)
    ELSE Bytes(<<>>, BLen(c) - k)

\* c with the byte at offset i replaced by b
SetByte(c, i, b) ==
    LET n == IF i < Len(c.head) THEN Len(c.head) ELSE i + 1
        full == [j \in 1..n |-> IF j = i + 1 THEN b ELSE At(c, j - 1)]
    IN  Bytes(full, BLen(c) - n)

\* buffer := make([]byte, n); file.Read(buffer): n bytes, the bytes read
\* first, zeros after them
ReadInto(c, pos, n) ==
    LET got == Take(Drop(c, pos), n)
    IN  [head |-> got.head, fill |-> n - Len(got.head)]

\* buffer[from], ..., buffer[from + Len(pat) - 1] equal pat
HasAt(buf, from, pat) ==
    /\ BLen(buf) >= from + Len(pat)
    /\ \A j \in 1..Len(pat) : At(buf, from + j - 1) = pat[j]

(* ------------------------------------------------------------------ *)
(* Strings                                                             *)
(* ------------------------------------------------------------------ *)
lowerOf == [t \in {"JPG", "JPEG", "PNG", "HEIC", "WEBP", "A"} |->
              CASE t = "JPG" -> "jpg" [] t = "JPEG" -> "jpeg" [] t = "PNG" -> "png"
                [] t = "HEIC" -> "heic" [] t = "WEBP" -> "webp" [] t = "A" -> "a"]

ToLower(s) == [j \in 1..Len(s) |-> IF s[j] \in DOMAIN lowerOf THEN lowerOf[s[j]] ELSE s[j]]

RECURSIVE ExtFrom(_, _)
ExtFrom(path, i) ==
    IF i < 1 \/ path[i] = "/" THEN <<>>
    ELSE IF path[i] = "." THEN SubSeq(path, i, Len(path))
    ELSE ExtFrom(path, i - 1)

\* filepath.Ext: the suffix beginning at the final dot of the final element
Ext(path) == ExtFrom(path, Len(path))

(* ------------------------------------------------------------------ *)
(* Content sniffing                                                    *)
(* ------------------------------------------------------------------ *)
\* bytes that net/http's textSig treats as binary data
IsBinaryByte(b) == b <= 8 \/ b = 11 \/ (14 <= b /\ b <= 26) \/ (28 <= b /\ b <= 31)

LooksLikeText(data) ==
    /\ \A j \in 1..Len(data.head) : ~IsBinaryByte(data.head[j])
    /\ data.fill = 0

\* http.DetectContentType: the signatures are tried in this order over at
\* most the first 512 bytes; the first that matches names the type
DetectContentType(buffer) ==
    LET data == Take(buffer, SniffLen)
    IN  CASE HasAt(data, 0, <<37, 80, 68, 70, 45>>) -> "application/pdf"
          [] HasAt(data, 0, <<0, 0, 1, 0>>) -> "image/x-icon"
          [] HasAt(data, 0, <<0, 0, 2, 0>>) -> "image/x-icon"
          [] HasAt(data, 0, <<66, 77>>) -> "image/bmp"
          [] HasAt(data, 0, <<71, 73, 70, 56, 55, 97>>) -> "image/gif"
          [] HasAt(data, 0, <<71, 73, 70, 56, 57, 97>>) -> "image/gif"
          [] HasAt(data, 0, <<82, 73, 70, 70>>)
               /\ HasAt(data, 8, <<87, 69, 66, 80, 86, 80>>) -> "image/webp"
          [] HasAt(data, 0, <<137, 80, 78, 71, 13, 10, 26, 10>>) -> "image/png"
          [] HasAt(data, 0, <<255, 216, 255>>) -> "image/jpeg"
          [] LooksLikeText(data) -> "text/plain; charset=utf-8"
          [] OTHER -> "application/octet-stream"

\* isValidHEIC: 'ftyp' at bytes 4-7 and 'heic' or 'mif1' at bytes 8-11
isValidHEIC(buffer) ==
    IF BLen(buffer) < 12 THEN FALSE
    ELSE IF ~HasAt(buffer, 4, <<102, 116, 121, 112>>) THEN FALSE
    ELSE LET heicBrand == HasAt(buffer, 8, <<104, 101, 105, 99>>)
             mif1Brand == HasAt(buffer, 8, <<109, 105, 102, 49>>)
         IN  heicBrand \/ mif1Brand

verifyMagicBytes_AlwaysTrue(buffer, contentType, ext) == TRUE

\* verifyMagicBytes: the signature of the detected content type
verifyMagicBytes(buffer, contentType, ext) ==
    CASE contentType = "image/jpeg" ->
           BLen(buffer) >= 3 /\ HasAt(buffer, 0, <<255, 216, 255>>)
      [] contentType = "image/png" ->
           BLen(buffer) >= 4 /\ HasAt(buffer, 0, <<137, 80, 78, 71>>)
      [] contentType = "image/webp" ->
           /\ BLen(buffer) >= 12
           /\ HasAt(buffer, 0, <<82, 73, 70, 70>>)
           /\ HasAt(buffer, 8, <<87, 69, 66, 80>>)
      [] OTHER ->
           IF ext = <<".", "heic">> THEN isValidHEIC(buffer) ELSE FALSE

(* ------------------------------------------------------------------ *)
(* Validation                                                          *)
(* ------------------------------------------------------------------ *)
\* a multipart.File: the bytes behind it, the read offset, and how many
\* Read calls it has served
OpenFile(content) == [content |-> content, pos |-> 0, reads |-> 0]

\* file.Read(buffer) without error: the offset moves past the bytes read
FileRead(file, n) ==
    [file EXCEPT !.pos = Min(file.pos + n, BLen(file.content)),
                 !.reads = file.reads + 1]

\* a Read that fails: the call was made, the offset is left where it was
FileReadFailed(file) == [file EXCEPT !.reads = file.reads + 1]

SeekStart_Skipped(file) == file

\* file.Seek(0, 0)
SeekStart(file) == [file EXCEPT !.pos = 0]

Verdict(err, file, buffer) == [err |-> err, file |-> file, buffer |-> buffer]

\* the checks of ValidateImageFile on the bytes read into buffer
CheckContent(buffer, ext) ==
    LET contentType == DetectContentType(buffer)
    IN  IF contentType \notin allowedMimeTypes /\ ext = <<".", "heic">>
                                               /\ ~isValidHEIC(buffer)
        THEN "content type does not match HEIC format"
        ELSE IF contentType \notin allowedMimeTypes /\ ext # <<".", "heic">>
        THEN "content type is not allowed"
        ELSE IF ~verifyMagicBytes(buffer, contentType, ext)
        THEN "file content does not match its extension"
        ELSE "ok"

ValidateImageFile_ReadFirst(file, header, readOK, seekOK) ==
    LET ext == ToLower(Ext(header.Filename))
        buffer == ReadInto(file.content, file.pos, SniffLen)
        moved == FileRead(file, SniffLen)
    IN  IF header.Size > MaxImageSize
        THEN Verdict("file size exceeds maximum", SeekStart(moved), NoBytes)
        ELSE IF header.Size = 0
        THEN Verdict("file is empty", SeekStart(moved), NoBytes)
        ELSE IF ext \notin allowedExtensions
        THEN Verdict("file extension is not allowed", SeekStart(moved), NoBytes)
        ELSE IF ~readOK
        THEN Verdict("failed to read file", FileReadFailed(file), NoBytes)
        ELSE IF ~seekOK
        THEN Verdict("failed to reset file pointer", moved, buffer)
        ELSE Verdict(CheckContent(buffer, ext), SeekStart(moved), buffer)

\* ValidateImageFile(file, header); readOK and seekOK are the outcomes of
\* file.Read and file.Seek.  The verdict carries the file as the call
\* leaves it and the buffer that was inspected.
ValidateImageFile(file, header, readOK, seekOK) ==
    LET ext == ToLower(Ext(header.Filename))
        buffer == ReadInto(file.content, file.pos, SniffLen)
        moved == FileRead(file, SniffLen)
    IN  IF header.Size > MaxImageSize
        THEN Verdict("file size exceeds maximum", file, NoBytes)
        ELSE IF header.Size = 0
        THEN Verdict("file is empty", file, NoBytes)
        ELSE IF ext \notin allowedExtensions
        THEN Verdict("file extension is not allowed", file, NoBytes)
        ELSE IF ~readOK
        THEN Verdict("failed to read file", FileReadFailed(file), NoBytes)
        ELSE IF ~seekOK
        THEN Verdict("failed to reset file pointer", moved, buffer)
        ELSE Verdict(CheckContent(buffer, ext), SeekStart(moved), buffer)

ValidateImageBuffer_NoHeicBypass(buffer, filename) ==
    LET ext == ToLower(Ext(filename))
        contentType == DetectContentType(buffer)
    IN  IF BLen(buffer) = 0 THEN "empty file buffer"
        ELSE IF ext \notin allowedExtensions THEN "invalid file extension"
        ELSE IF contentType \notin allowedMimeTypes THEN "invalid content type"
        ELSE IF ~verifyMagicBytes(buffer, contentType, ext)
        THEN "file content validation failed"
        ELSE "ok"

\* ValidateImageBuffer(buffer, filename)
ValidateImageBuffer(buffer, filename) ==
    LET ext == ToLower(Ext(filename))
        contentType == DetectContentType(buffer)
    IN  IF BLen(buffer) = 0 THEN "empty file buffer"
        ELSE IF ext \notin allowedExtensions THEN "invalid file extension"
        ELSE IF contentType \notin allowedMimeTypes /\ ext # <<".", "heic">>
        THEN "invalid content type"
        ELSE IF ~verifyMagicBytes(buffer, contentType, ext)
        THEN "file content validation failed"
        ELSE "ok"

\* what ReadAndValidateImage returns: the bytes (none on an error) and the error
Returned(bytes, err) == [bytes |-> bytes, err |-> err]

ReadAndValidateImage_NoSizeCheck(file, header, readOK, seekOK, reseekOK, readAllOK) ==
    LET v == ValidateImageFile(file, header, readOK, seekOK)
        buffer == Drop(file.content, 0)
        e == ValidateImageBuffer(buffer, header.Filename)
    IN  IF v.err # "ok" THEN Returned(NoBytes, v.err)
        ELSE IF ~reseekOK THEN Returned(NoBytes, "failed to reset file pointer")
        ELSE IF ~readAllOK THEN Returned(NoBytes, "failed to read file")
        ELSE IF e # "ok" THEN Returned(NoBytes, e)
        ELSE Returned(buffer, "ok")

\* ReadAndValidateImage(file, header); reseekOK and readAllOK are the outcomes
\* of its own file.Seek(0, 0) and buffer.ReadFrom(file)
ReadAndValidateImage(file, header, readOK, seekOK, reseekOK, readAllOK) ==
    LET v == ValidateImageFile(file, header, readOK, seekOK)
        buffer == Drop(file.content, 0)
        e == ValidateImageBuffer(buffer, header.Filename)
    IN  IF v.err # "ok" THEN Returned(NoBytes, v.err)
        ELSE IF ~reseekOK THEN Returned(NoBytes, "failed to reset file pointer")
        ELSE IF ~readAllOK THEN Returned(NoBytes, "failed to read file")
        ELSE IF BLen(buffer) # header.Size THEN Returned(NoBytes, "file size mismatch")
        ELSE IF e # "ok" THEN Returned(NoBytes, e)
        ELSE Returned(buffer, "ok")

(* ------------------------------------------------------------------ *)
(* Paths                                                               *)
(* ------------------------------------------------------------------ *)
RECURSIVE SplitPath(_)
\* the elements of a path between its "/" separators
SplitPath(path) ==
    IF \A j \in 1..Len(path) : path[j] # "/" THEN <<path>>
    ELSE LET k == CHOOSE j \in 1..Len(path) :
                      path[j] = "/" /\ \A i \in 1..(j - 1) : path[i] # "/"
         IN  <<SubSeq(path, 1, k - 1)>> \o SplitPath(SubSeq(path, k + 1, Len(path)))

RECURSIVE CleanElems(_, _, _)
\* filepath.Clean on the elements: drop empty and "." elements, let ".."
\* cancel the element before it
CleanElems(elems, out, rooted) ==
    IF elems = <<>> THEN out
    ELSE LET e == Head(elems)
             rest == Tail(elems)
         IN  IF e = <<>> \/ e = <<".">> THEN CleanElems(rest, out, rooted)
             ELSE IF e = <<".", ".">>
             THEN IF out # <<>> /\ out[Len(out)] # <<".", ".">>
                  THEN CleanElems(rest, SubSeq(out, 1, Len(out) - 1), rooted)
                  ELSE IF rooted THEN CleanElems(rest, out, rooted)
                  ELSE CleanElems(rest, Append(out, e), rooted)
             ELSE CleanElems(rest, Append(out, e), rooted)

RECURSIVE JoinElems(_)
JoinElems(elems) ==
    IF elems = <<>> THEN <<>>
    ELSE IF Len(elems) = 1 THEN elems[1]
    ELSE elems[1] \o <<"/">> \o JoinElems(Tail(elems))

\* filepath.Clean
Clean(path) ==
    LET rooted == path # <<>> /\ path[1] = "/"
        body == JoinElems(CleanElems(SplitPath(path), <<>>, rooted))
    IN  IF rooted THEN <<"/">> \o body
        ELSE IF body = <<>> THEN <<".">>
        ELSE body

\* filepath.Join(a, b): empty elements are ignored, the result is cleaned
Join(a, b) ==
    IF a = <<>> THEN (IF b = <<>> THEN <<>> ELSE Clean(b))
    ELSE IF b = <<>> THEN Clean(a)
    ELSE Clean(a \o <<"/">> \o b)

\* strings.TrimPrefix(s, "/")
TrimSlash(s) == IF s # <<>> /\ s[1] = "/" THEN Tail(s) ELSE s

\* the directory part of a cleaned path
Dir(path) ==
    LET es == SplitPath(path)
    IN  IF Len(es) <= 1 THEN <<".">> ELSE JoinElems(SubSeq(es, 1, Len(es) - 1))

(* ------------------------------------------------------------------ *)
(* Bounds and inputs                                                   *)
(* ------------------------------------------------------------------ *)
\* SaveImage calls in one behaviour
MaxUploads == 2

\* how many records the database comes to hold
MaxRecords == 1

Categories == { <<"news">>, <<"holes">> }

Contents ==
    { Bytes(<<255, 216, 255, 217>>, 0),                                  \* JPEG, 4 bytes
      Bytes(<<255, 216, 255, 224>>, 600),                                \* JPEG, 604 bytes
      Bytes(<<255, 216, 255>>, MaxImageSize - 2),                        \* JPEG, 5 MiB + 1
      Bytes(<<137, 80, 78, 71, 13, 10, 26, 10, 0, 0, 0, 13, 73>>, 0),    \* PNG
      Bytes(<<137, 80, 78, 71, 1, 2, 3, 4>>, 0),                         \* 4 PNG bytes only
      Bytes(<<82, 73, 70, 70, 1, 2, 3, 4, 87, 69, 66, 80, 86, 80, 56>>, 0), \* RIFF....WEBPVP8
      Bytes(<<82, 73, 70, 70, 1, 2, 3, 4, 87, 69, 66, 80, 65>>, 0),      \* RIFF....WEBPA
      Bytes(<<0, 0, 0, 24, 102, 116, 121, 112, 104, 101, 105, 99>>, 12), \* ftypheic
      Bytes(<<0, 0, 0, 24, 102, 116, 121, 112, 109, 105, 102, 49>>, 12), \* ftypmif1
      Bytes(<<71, 73, 70, 56, 57, 97, 1>>, 0),                           \* GIF89a
      NoBytes }

Filenames ==
    { <<"a", ".", "jpg">>, <<"a", ".", "png">>, <<"a", ".", "webp">>,
      <<"A", ".", "HEIC">>, <<"a", ".", "gif">>, <<"a">> }

Upload(content, name) == [content |-> content, name |-> name]

\* the uploads handed to SaveImage
Uploads ==
    { Upload(Bytes(<<255, 216, 255, 217>>, 0), <<"a", ".", "jpg">>),
      Upload(Bytes(<<255, 216, 255, 224>>, 600), <<"a", ".", "jpg">>),
      Upload(Bytes(<<255, 216, 255>>, MaxImageSize - 2), <<"a", ".", "jpg">>),
      Upload(Bytes(<<255, 216, 255, 217>>, 0), <<"A", ".", "HEIC">>),
      Upload(Bytes(<<137, 80, 78, 71, 13, 10, 26, 10, 0, 0, 0, 13, 73>>, 0),
             <<"a", ".", "png">>),
      Upload(Bytes(<<137, 80, 78, 71, 1, 2, 3, 4>>, 0), <<"a", ".", "png">>),
      Upload(Bytes(<<82, 73, 70, 70, 1, 2, 3, 4, 87, 69, 66, 80, 86, 80, 56>>, 0),
             <<"a", ".", "webp">>),
      Upload(Bytes(<<82, 73, 70, 70, 1, 2, 3, 4, 87, 69, 66, 80, 86, 80, 56>>, 0),
             <<"a", ".", "png">>),
      Upload(Bytes(<<0, 0, 0, 24, 102, 116, 121, 112, 104, 101, 105, 99>>, 12),
             <<"A", ".", "HEIC">>),
      Upload(Bytes(<<71, 73, 70, 56, 57, 97, 1>>, 0), <<"a", ".", "gif">>),
      Upload(Bytes(<<71, 73, 70, 56, 57, 97, 1>>, 0), <<"a", ".", "jpg">>),
      Upload(NoBytes, <<"a", ".", "jpg">>) }

\* lengths at which a failing copy or a truncation leaves the file
PartialLens == {0, 3}

\* offsets of the byte a corruption of the written file changes
CorruptOffsets == {0}

(* ------------------------------------------------------------------ *)
(* State                                                               *)
(* ------------------------------------------------------------------ *)
VARIABLES
    files,      \* the regular files on disk: cleaned path -> bytes
    dirs,       \* the directories on disk (cleaned paths)
    made,       \* how many file names SaveImage has generated
    call,       \* the call in progress: its operation, position and locals
    lastDelete, \* URL of the DeleteImage call that has just succeeded, or <<"-">>
    rewrite,    \* the last PrependBaseURL application: arguments and results
    other,      \* the call of a second request, while the first one's runs
    cancelledAt, \* path SaveImage was writing when its request was cancelled, or <<>>
    db,         \* the database: kind of record -> its row
    cache,      \* Redis: cache key -> entry
    req,        \* the create or update handler in progress
    resp,       \* the last response a handler has written
    holeIndex,  \* the holes table: hole id -> whether the row exists, its hole_index
    reorder,    \* the last ReorderHoles request: its hole_ids and how far it got
    users,      \* the users table: user id -> whether the row exists, role, password
    gate,       \* the last request to the router: what it carried and how far it got
    listing,    \* the last GetPosts request: its parameters, the posts, the page
    reader      \* a cached read in progress beside the handler of req

\* the database, the cache and the handlers
web == <<db, cache, req, resp>>

\* the holes and their order
board == <<holeIndex, reorder>>

\* the users and the requests of the router
guard == <<users, gate>>

\* the tables and requests of the handlers that carry no image
more == <<board, guard, listing, reader>>

\* the state outside the image store and its caller
aux == <<rewrite, other, cancelledAt, web, more>>

vars == <<files, dirs, made, call, lastDelete, aux>>

NoResult == [Filename |-> <<>>, Path |-> <<>>, URL |-> <<>>, Size |-> 0]

NoHeader == [Filename |-> <<>>, Size |-> 0]

NoURL == <<"-">>

\* the kinds of record that carry an image: models.News, models.Event, models.Hole
Kinds == {"news", "events", "holes"}

\* the slugs an article is given: the one it is created with and another
Slugs == {"s1", "s2"}

\* a form without a slug field, and the slug column of a hole (it has none)
NoSlug == "-"

\* one record of each kind is followed; ImageURL is its image_url column,
\* Slug its slug column
NoRow == [present |-> FALSE, ImageURL |-> <<>>, Slug |-> NoSlug]

\* the cache keys of a kind: its list pages, its record by id and, for news
\* and events, by slug
CacheKeys ==
    { <<k, "list">> : k \in Kinds } \cup { <<k, "id">> : k \in Kinds }
      \cup { <<k, "slug", s>> : k \in {"news", "events"}, s \in Slugs }

\* a cache entry holds the image URLs of the value that was marshalled into it
Miss == [hit |-> FALSE, items |-> <<>>]

Entry(items) == [hit |-> TRUE, items |-> items]

NoRequest == [handler |-> "none", kind |-> "none", pc |-> "idle", slug |-> NoSlug]

\* a response: the handler, the status, the image URLs in the body, the stored
\* values they were made of, the BASE_URL in force, and whether the cache answered
Response(handler, status, stored, images, base, hit) ==
    [handler |-> handler, status |-> status, stored |-> stored,
     images |-> images, base |-> base, hit |-> hit]

NoResponse == Response("none", 0, <<>>, <<>>, <<>>, FALSE)

\* the holes of the course: two that exist, in the order they were created,
\* and one that was deleted
HoleIDs == {"h1", "h2", "h3"}

SeededHoles ==
    [h \in HoleIDs |->
       CASE h = "h1" -> [exists |-> TRUE, hole_index |-> 1]
         [] h = "h2" -> [exists |-> TRUE, hole_index |-> 2]
         [] h = "h3" -> [exists |-> FALSE, hole_index |-> 3]]

NoReorder == [ids |-> <<>>, status |-> 0, applied |-> 0]

NoRewrite == [stored |-> <<>>, base |-> <<>>, out |-> <<>>, prev |-> <<>>, applied |-> 0]

Idle ==
    [ op |-> "none", pc |-> "idle",
      file |-> OpenFile(NoBytes), header |-> NoHeader, subfolder |-> <<>>,
      filename |-> <<>>, fullPath |-> <<>>,
      buffer |-> NoBytes, err |-> "ok", result |-> NoResult,
      before |-> {}, faulted |-> FALSE, upload |-> NoBytes,
      url |-> <<>>, again |-> FALSE, oserr |-> FALSE ]

(* ------------------------------------------------------------------ *)
(* The users, their tokens and the requests of the router               *)
(* ------------------------------------------------------------------ *)
UserIDs == {"u1", "u2"}

Roles == {"admin", "user"}

\* bcrypt of a password: the stored string is never the password itself
HashPassword(password) == <<"bcrypt", password>>

NoUser == [state |-> "none", Role |-> "user", Password |-> <<>>]

\* createDefaultAdmin: the one user of a fresh deployment
DefaultAdmin ==
    [u \in UserIDs |->
        IF u = "u1"
        THEN [state |-> "live", Role |-> "admin", Password |-> HashPassword("admin123")]
        ELSE NoUser]

\* the claims of a token; the nil pointer is the record with nil set
Claims(id, role) == [nil |-> FALSE, UserID |-> id, Role |-> role]

NilClaims == [nil |-> TRUE, UserID |-> "", Role |-> ""]

\* a token: what it claims, and whether signature and expiry are in order
Tokens ==
    { t \in [UserID : UserIDs, Role : Roles, good : BOOLEAN] : t.good \/ t.Role = "admin" }

\* the token GenerateJWT gives a user at Login
IssuedTo(us, t) == us[t.UserID].state # "none" /\ us[t.UserID].Role = t.Role

ValidateJWT(token) ==
    [claims |-> IF token.good THEN Claims(token.UserID, token.Role) ELSE NilClaims,
     err |-> ~token.good]

\* the Authorization header, as the words between its spaces
AuthHeaders ==
    { <<>>, <<"Bearer">> }
      \cup { <<"Bearer", t>> : t \in Tokens }
      \cup { <<"Basic", t>> : t \in { g \in Tokens : g.good } }

\* the keys of a request context: equal when type and name are equal
UserContextKey == [type |-> "contextKey", name |-> "user"]

StringKey(name) == [type |-> "string", name |-> name]

Background == <<>>

WithValue(ctx, key, val) == <<[key |-> key, val |-> val]>> \o ctx

RECURSIVE Value(_, _)
Value(ctx, key) ==
    IF ctx = <<>> THEN NilClaims
    ELSE IF Head(ctx).key = key THEN Head(ctx).val
    ELSE Value(Tail(ctx), key)

Route(method, path, handler, chain) ==
    [method |-> method, path |-> path, handler |-> handler, chain |-> chain]

\* SetupRoutes: every route, with the middleware in front of it; the first route
\* takes every OPTIONS request
Routes ==
    { Route("OPTIONS", "*", "Options", "public"),
      Route("POST", "/auth/login", "Login", "public"),
      Route("GET", "/posts", "GetPosts", "public"),
      Route("GET", "/news/{id}", "GetNewsByID", "public"),
      Route("GET", "/news/slug/{slug}", "GetNewsBySlug", "public"),
      Route("GET", "/events/{id}", "GetEventByID", "public"),
      Route("GET", "/events/slug/{slug}", "GetEventBySlug", "public"),
      Route("GET", "/holes", "GetHoles", "public"),
      Route("GET", "/holes/{id}", "GetHole", "public"),
      Route("GET", "/users/me", "GetCurrentUser", "protected"),
      Route("POST", "/users", "Register", "admin"),
      Route("GET", "/users", "GetUsers", "admin"),
      Route("GET", "/users/{id}", "GetUser", "admin"),
      Route("PUT", "/users/{id}", "UpdateUser", "admin"),
      Route("DELETE", "/users/{id}", "DeleteUser", "admin"),
      Route("GET", "/news", "GetNews", "admin"),
      Route("POST", "/news", "CreateNews", "admin"),
      Route("PUT", "/news/{id}", "UpdateNews", "admin"),
      Route("DELETE", "/news/{id}", "DeleteNews", "admin"),
      Route("GET", "/events", "GetEvents", "admin"),
      Route("POST", "/events", "CreateEvent", "admin"),
      Route("PUT", "/events/{id}", "UpdateEvent", "admin"),
      Route("DELETE", "/events/{id}", "DeleteEvent", "admin"),
      Route("POST", "/admin/holes", "CreateHole", "admin"),
      Route("PUT", "/admin/holes/reorder", "ReorderHoles", "admin"),
      Route("PUT", "/admin/holes/{id}", "UpdateHole", "admin"),
      Route("DELETE", "/admin/holes/{id}", "DeleteHole", "admin") }

\* the body of a request on the users: "-" is a key the body does not carry
NoBody == [json |-> TRUE, role |-> "-", password |-> "-"]

Bodies ==
    [json : {TRUE}, role : {"-", "admin"}, password : {"-", "pw"}]
      \cup { [NoBody EXCEPT !.json = FALSE] }

\* the handlers that read the body, the id of the path, the database
BodyHandlers == {"Register", "UpdateUser"}

IdHandlers == {"UpdateUser", "DeleteUser"}

UserHandlers == {"Register", "GetCurrentUser", "UpdateUser", "DeleteUser"}

\* what a request met on its way: status 0 with reached is the handler's own answer
Pass(method, route, header, id, body, reached, status, panicked) ==
    [method |-> method, handler |-> route.handler, chain |-> route.chain,
     header |-> header, id |-> id, body |-> body,
     reached |-> reached, status |-> status, panicked |-> panicked]

NoPass ==
    Pass("GET", Route("GET", "/", "none", "public"), <<>>, "-", NoBody, FALSE, 0, FALSE)

\* no GetPosts request was answered yet
NoListing ==
    [type |-> "", pageStr |-> <<>>, limitStr |-> <<>>, news |-> <<>>, events |-> <<>>,
     answer |-> [status |-> 0, panicked |-> FALSE, posts |-> <<>>,
                 meta |-> [Page |-> <<1, 0, 0, 0>>, Limit |-> 10, Total |-> 0,
                           TotalPages |-> 0],
                 start |-> <<0, 0, 0, 0>>, end |-> <<0, 0, 0, 0>>]]

\* no read is in progress
NoReader == [pc |-> "idle", handler |-> "none", kind |-> "none", items |-> <<>>]

\* everything but the files of the working directory
InitRest ==
    /\ dirs = { <<".">> }
    /\ made = 0
    /\ call = Idle
    /\ lastDelete = NoURL
    /\ rewrite = NoRewrite
    /\ other = Idle
    /\ cancelledAt = <<>>
    /\ db = [k \in Kinds |-> NoRow]
    /\ cache = [key \in CacheKeys |-> Miss]
    /\ req = NoRequest
    /\ resp = NoResponse
    /\ holeIndex = SeededHoles
    /\ reorder = NoReorder
    /\ users = DefaultAdmin
    /\ gate = NoPass
    /\ listing = NoListing
    /\ reader = NoReader

Init ==
    /\ files = << >>
    /\ InitRest

\* the server started in the root of its repository: go.mod and main.go lie
\* beside the uploads directory
RepositoryFiles ==
    [p \in { <<"go", ".", "mod">>, <<"main", ".", "go">> } |-> Bytes(<<109>>, 0)]

InitInRepository ==
    /\ files = RepositoryFiles
    /\ InitRest

\* return of the call in progress with an error
Fail(c, e) == [c EXCEPT !.pc = "done", !.err = e]

\* os.Remove of a regular file
RemoveFile(fs, path) == [q \in (DOMAIN fs) \ {path} |-> fs[q]]

Rollback_None(fs, path) == fs

\* os.Remove(fullPath) of the file SaveImage has just created
Rollback(fs, path) == RemoveFile(fs, path)

\* the file names generated so far are all different: uuid.New() and the
\* clock, then the lower-cased extension
NewFilename_TimestampOnly(n, ext) == <<"ts">> \o ext

NewFilename(n, ext) == <<ToString(n), "_", "ts">> \o ext

\* os.MkdirAll: the directory and the directories above it
RECURSIVE MkdirAll(_, _)
MkdirAll(ds, path) ==
    IF path \in ds THEN ds ELSE MkdirAll(ds \cup {path}, Dir(path))

(* ------------------------------------------------------------------ *)
(* SaveImage                                                           *)
(* ------------------------------------------------------------------ *)
\* a caller hands SaveImage the file and header of a multipart upload (the
\* header's Size is the length of the part) and a subfolder
SaveImageEntry(content, name, subfolder) ==
    [Idle EXCEPT !.op = "SaveImage", !.pc = "validate",
                 !.file = OpenFile(content),
                 !.header = [Filename |-> name, Size |-> BLen(content)],
                 !.subfolder = subfolder,
                 !.upload = content,
                 !.before = DOMAIN files]

SaveImageCall(content, name, subfolder) ==
    /\ call.pc = "idle"
    /\ made < MaxUploads
    /\ call' = SaveImageEntry(content, name, subfolder)
    /\ lastDelete' = NoURL
    /\ UNCHANGED <<files, dirs, made>>
    /\ UNCHANGED aux

\* if err := ValidateImageFile(file, header); err != nil { return nil, err }
SaveValidate ==
    /\ call.op = "SaveImage" /\ call.pc = "validate"
    /\ \E readOK \in BOOLEAN, seekOK \in BOOLEAN :
         LET v == ValidateImageFile(call.file, call.header, readOK, seekOK)
             c == [call EXCEPT !.file = v.file, !.buffer = v.buffer]
         IN  call' = IF v.err # "ok" THEN Fail(c, v.err)
                     ELSE [c EXCEPT !.pc = "mkdir"]
    /\ UNCHANGED <<files, dirs, made, lastDelete>>
    /\ UNCHANGED aux

MkdirAllSucceeds_OnlyIfAbsent(ds, path, ok) == ok /\ path \notin ds

\* os.MkdirAll returns nil also when the path is a directory already: it
\* fails only when the operating system reports an error of its own
MkdirAllSucceeds(ds, path, ok) == ok

\* os.MkdirAll(uploadPath, 0755)
SaveMkdir ==
    /\ call.op = "SaveImage" /\ call.pc = "mkdir"
    /\ LET uploadPath == Join(UploadDir, call.subfolder)
       IN  \E ok \in BOOLEAN :
             IF MkdirAllSucceeds(dirs, uploadPath, ok)
             THEN /\ dirs' = MkdirAll(dirs, uploadPath)
                  /\ call' = [call EXCEPT !.pc = "create"]
             ELSE /\ dirs' = dirs
                  /\ call' = Fail([call EXCEPT !.oserr = ~ok],
                                  "failed to create upload directory")
    /\ UNCHANGED <<files, made, lastDelete>>
    /\ UNCHANGED aux

\* the file name is generated, then os.Create(fullPath)
SaveCreate ==
    /\ call.op = "SaveImage" /\ call.pc = "create"
    /\ LET uploadPath == Join(UploadDir, call.subfolder)
           ext == ToLower(Ext(call.header.Filename))
           filename == NewFilename(made + 1, ext)
           fullPath == Join(uploadPath, filename)
           c == [call EXCEPT !.filename = filename, !.fullPath = fullPath]
       IN  /\ made' = made + 1
           /\ \E ok \in BOOLEAN :
                IF ok
                THEN /\ files' = [q \in DOMAIN files \cup {fullPath} |->
                                     IF q = fullPath THEN NoBytes ELSE files[q]]
                     /\ call' = [c EXCEPT !.pc = "copy"]
                ELSE /\ files' = files
                     /\ call' = Fail(c, "failed to create file")
    /\ UNCHANGED <<dirs, lastDelete>>
    /\ UNCHANGED aux

\* io.Copy(dst, file): everything from the read offset on; a copy that
\* fails has written some of it, and the file is then removed
SaveCopy ==
    /\ call.op = "SaveImage" /\ call.pc = "copy"
    /\ LET rest == Drop(call.file.content, call.file.pos)
       IN  \/ /\ files' = [files EXCEPT ![call.fullPath] = rest]
              /\ call' = [call EXCEPT !.pc = "open",
                                      !.file.pos = BLen(call.file.content)]
           \/ \E k \in PartialLens :
                /\ k < BLen(rest)
                /\ files' = Rollback([files EXCEPT ![call.fullPath] = Take(rest, k)],
                                     call.fullPath)
                /\ call' = Fail([call EXCEPT !.file.pos = call.file.pos + k],
                                "failed to save file")
    /\ UNCHANGED <<dirs, made, lastDelete>>
    /\ UNCHANGED aux

\* what a truncation or a corrupted byte can turn the written bytes into
Tampered(c) ==
    ({ Take(c, k) : k \in { n \in PartialLens : n < BLen(c) } }
       \cup { SetByte(c, i, (At(c, i) + 1) % 256) :
                i \in { n \in CorruptOffsets : n < BLen(c) } }) \ {c}

\* the environment damages the file between the write and its re-validation
FaultBeforeVerify ==
    /\ call.op = "SaveImage" /\ call.pc = "open"
    /\ ~call.faulted
    /\ \E t \in Tampered(files[call.fullPath]) :
         files' = [files EXCEPT ![call.fullPath] = t]
    /\ call' = [call EXCEPT !.faulted = TRUE]
    /\ UNCHANGED <<dirs, made, lastDelete>>
    /\ UNCHANGED aux

\* savedFile, err := os.Open(fullPath)
SaveReopen ==
    /\ call.op = "SaveImage" /\ call.pc = "open"
    /\ \E ok \in BOOLEAN :
         IF ok
         THEN /\ files' = files
              /\ call' = [call EXCEPT !.pc = "revalidate"]
         ELSE /\ files' = Rollback(files, call.fullPath)
              /\ call' = Fail(call, "failed to verify saved file")
    /\ UNCHANGED <<dirs, made, lastDelete>>
    /\ UNCHANGED aux

SaveRevalidate_OfUpload ==
    /\ call.op = "SaveImage" /\ call.pc = "revalidate"
    /\ \E readOK \in BOOLEAN, seekOK \in BOOLEAN :
         LET tempHeader == [Filename |-> call.filename, Size |-> call.header.Size]
             v == ValidateImageFile(OpenFile(call.upload), tempHeader,
                                    readOK, seekOK)
             c == [call EXCEPT !.buffer = v.buffer]
         IN  IF v.err # "ok"
             THEN /\ files' = Rollback(files, call.fullPath)
                  /\ call' = Fail(c, "saved file validation failed")
             ELSE /\ files' = files
                  /\ call' = [c EXCEPT !.pc = "stat"]
    /\ UNCHANGED <<dirs, made, lastDelete>>
    /\ UNCHANGED aux

\* ValidateImageFile(savedFile, tempHeader): the header carries the
\* generated name and the size the upload declared
SaveRevalidate ==
    /\ call.op = "SaveImage" /\ call.pc = "revalidate"
    /\ \E readOK \in BOOLEAN, seekOK \in BOOLEAN :
         LET tempHeader == [Filename |-> call.filename, Size |-> call.header.Size]
             v == ValidateImageFile(OpenFile(files[call.fullPath]), tempHeader,
                                    readOK, seekOK)
             c == [call EXCEPT !.buffer = v.buffer]
         IN  IF v.err # "ok"
             THEN /\ files' = Rollback(files, call.fullPath)
                  /\ call' = Fail(c, "saved file validation failed")
             ELSE /\ files' = files
                  /\ call' = [c EXCEPT !.pc = "stat"]
    /\ UNCHANGED <<dirs, made, lastDelete>>
    /\ UNCHANGED aux

SaveStat_DeclaredSize ==
    /\ call.op = "SaveImage" /\ call.pc = "stat"
    /\ \E ok \in BOOLEAN :
         IF ok
         THEN call' = [call EXCEPT
                 !.pc = "done",
                 !.result = [Filename |-> call.filename,
                             Path |-> call.fullPath,
                             URL |-> <<"/", "uploads", "/">> \o call.subfolder
                                       \o <<"/">> \o call.filename,
                             Size |-> call.header.Size]]
         ELSE call' = Fail(call, "failed to get file info")
    /\ UNCHANGED <<files, dirs, made, lastDelete>>
    /\ UNCHANGED aux

\* fileInfo, err := os.Stat(fullPath), then the result
SaveStat ==
    /\ call.op = "SaveImage" /\ call.pc = "stat"
    /\ \E ok \in BOOLEAN :
         IF ok
         THEN call' = [call EXCEPT
                 !.pc = "done",
                 !.result = [Filename |-> call.filename,
                             Path |-> call.fullPath,
                             URL |-> <<"/", "uploads", "/">> \o call.subfolder
                                       \o <<"/">> \o call.filename,
                             Size |-> BLen(files[call.fullPath])]]
         ELSE call' = Fail(call, "failed to get file info")
    /\ UNCHANGED <<files, dirs, made, lastDelete>>
    /\ UNCHANGED aux

\* the call returns to its caller
Return ==
    /\ call.pc = "done"
    /\ call' = Idle
    /\ UNCHANGED <<files, dirs, made, lastDelete>>
    /\ UNCHANGED aux

(* ------------------------------------------------------------------ *)
(* DeleteImage                                                         *)
(* ------------------------------------------------------------------ *)
Exists(fs, ds, path) == path \in DOMAIN fs \/ path \in ds

\* os.Remove: a file, or a directory with nothing in it
CanRemove(fs, ds, path) ==
    \/ path \in DOMAIN fs
    \/ /\ path \in ds
       /\ path # <<".">>
       /\ \A q \in (DOMAIN fs) \cup ds : q = path \/ Dir(q) # path

Outcome(err, fs, ds) == [err |-> err, files |-> fs, dirs |-> ds]

DeleteImage_MissingIsError(fs, ds, imagePath, removeOK) ==
    IF imagePath = <<>> THEN Outcome("ok", fs, ds)
    ELSE LET filePath == Join(<<".">>, TrimSlash(imagePath))
         IN  IF removeOK /\ CanRemove(fs, ds, filePath)
             THEN Outcome("ok", RemoveFile(fs, filePath), ds \ {filePath})
             ELSE Outcome("failed to delete image file", fs, ds)

\* DeleteImage(imagePath); removeOK is whether the file system lets
\* os.Remove through
DeleteImage(fs, ds, imagePath, removeOK) ==
    IF imagePath = <<>> THEN Outcome("ok", fs, ds)
    ELSE LET filePath == Join(<<".">>, TrimSlash(imagePath))
         IN  IF ~Exists(fs, ds, filePath) THEN Outcome("ok", fs, ds)
             ELSE IF removeOK /\ CanRemove(fs, ds, filePath)
             THEN Outcome("ok", RemoveFile(fs, filePath), ds \ {filePath})
             ELSE Outcome("failed to delete image file", fs, ds)

\* the URLs callers delete: nothing, a stored file's URL, the URL just
\* deleted, a URL no file was ever stored under, a category directory
DeleteInputs ==
    { <<>>, <<"/", "uploads", "/", "news", "/", "old", ".", "jpg">>,
      <<"/", "uploads", "/", "news">> }
      \cup { <<"/">> \o q : q \in DOMAIN files }
      \cup ({lastDelete} \ {NoURL})

DeleteImageCall(url) ==
    /\ call.pc = "idle"
    /\ \E removeOK \in BOOLEAN :
         LET out == DeleteImage(files, dirs, url, removeOK)
         IN  /\ files' = out.files
             /\ dirs' = out.dirs
             /\ call' = [Idle EXCEPT !.op = "DeleteImage", !.pc = "done",
                                     !.url = url, !.err = out.err,
                                     !.before = (DOMAIN files) \cup dirs,
                                     !.again = (lastDelete = url)]
             /\ lastDelete' = IF out.err = "ok" THEN url ELSE NoURL
    /\ made' = made
    /\ UNCHANGED aux

(* ------------------------------------------------------------------ *)
(* Direct calls of the validators                                      *)
(* ------------------------------------------------------------------ *)
\* the sizes a header can declare for a content
DeclaredSizes(content) == {BLen(content), 0, MaxImageSize, MaxImageSize + 1}

ValidateImageFileCall(content, name, size) ==
    /\ call.pc = "idle"
    /\ \E readOK \in BOOLEAN, seekOK \in BOOLEAN :
         LET header == [Filename |-> name, Size |-> size]
             v == ValidateImageFile(OpenFile(content), header, readOK, seekOK)
         IN  call' = [Idle EXCEPT !.op = "ValidateImageFile", !.pc = "done",
                                  !.upload = content, !.header = header,
                                  !.file = v.file, !.buffer = v.buffer,
                                  !.err = v.err]
    /\ UNCHANGED <<files, dirs, made, lastDelete>>
    /\ UNCHANGED aux

ValidateImageBufferCall(content, name) ==
    /\ call.pc = "idle"
    /\ call' = [Idle EXCEPT !.op = "ValidateImageBuffer", !.pc = "done",
                            !.upload = content, !.buffer = content,
                            !.header = [Filename |-> name, Size |-> BLen(content)],
                            !.err = ValidateImageBuffer(content, name)]
    /\ UNCHANGED <<files, dirs, made, lastDelete>>
    /\ UNCHANGED aux

(* ------------------------------------------------------------------ *)
(* Two requests at once                                                *)
(* ------------------------------------------------------------------ *)
\* net/http serves every request on a goroutine of its own: between two steps
\* of one request's call the scheduler may run the other request's
Switch ==
    /\ call' = other
    /\ other' = call
    /\ UNCHANGED <<files, dirs, made, lastDelete, rewrite, cancelledAt, web, more>>

\* the uploads of two requests that run at once: same name, different bytes
ConcurrentUploads ==
    { Upload(Bytes(<<255, 216, 255, 217>>, 0), <<"a", ".", "jpg">>),
      Upload(Bytes(<<255, 216, 255, 224>>, 600), <<"a", ".", "jpg">>) }

(* ------------------------------------------------------------------ *)
(* Cancellation                                                        *)
(* ------------------------------------------------------------------ *)
\* the client goes away or the request times out while io.Copy runs: the
\* request's context is cancelled; SaveImage is given no context and reads none
CancelRequest ==
    /\ call.op = "SaveImage" /\ call.pc = "copy"
    /\ cancelledAt # call.fullPath
    /\ cancelledAt' = call.fullPath
    /\ UNCHANGED <<files, dirs, made, call, lastDelete, rewrite, other, web, more>>

(* ------------------------------------------------------------------ *)
(* PrependBaseURL                                                      *)
(* ------------------------------------------------------------------ *)
\* a URL is the sequence of its tokens: "/", "." and ":" are tokens of their
\* own, and a run of other characters is one token
IsSeparator(t) == t \in {"/", ".", ":"}

\* a + b of two strings: the last run of a and the first run of b become one run
Concat(a, b) ==
    IF a = <<>> THEN b
    ELSE IF b = <<>> THEN a
    ELSE IF IsSeparator(a[Len(a)]) \/ IsSeparator(b[1]) THEN a \o b
    ELSE SubSeq(a, 1, Len(a) - 1) \o << a[Len(a)] \o b[1] >> \o Tail(b)

UploadsMarker == <<"/", "uploads", "/">>

\* strings.Index: offset of the first occurrence of sub in s, -1 when there is none
Index(s, sub) ==
    LET at == { i \in 0 .. (Len(s) - Len(sub)) : SubSeq(s, i + 1, i + Len(sub)) = sub }
    IN  IF at = {} THEN -1 ELSE CHOOSE i \in at : \A j \in at : i <= j

\* strings.HasPrefix
HasPrefix(s, prefix) ==
    /\ Len(s) >= Len(prefix)
    /\ SubSeq(s, 1, Len(prefix)) = prefix

HasScheme(s) ==
    \/ HasPrefix(s, <<"http", ":", "/", "/">>)
    \/ HasPrefix(s, <<"https", ":", "/", "/">>)

PrependBaseURL_SchemeFirst(imageURL, baseURL) ==
    IF imageURL = <<>> \/ baseURL = <<>> THEN imageURL
    ELSE IF HasScheme(imageURL) THEN imageURL
    ELSE IF Index(imageURL, UploadsMarker) # -1
         THEN Concat(baseURL, SubSeq(imageURL, Index(imageURL, UploadsMarker) + 1,
                                     Len(imageURL)))
    ELSE Concat(baseURL, imageURL)

PrependBaseURL(imageURL, baseURL) ==
    IF imageURL = <<>> \/ baseURL = <<>> THEN imageURL
    ELSE IF Index(imageURL, UploadsMarker) # -1
         THEN Concat(baseURL, SubSeq(imageURL, Index(imageURL, UploadsMarker) + 1,
                                     Len(imageURL)))
    ELSE IF HasScheme(imageURL) THEN imageURL
    ELSE Concat(baseURL, imageURL)

\* values of an image_url column: empty, what SaveImage returns, absolute URLs
\* of this and of other hosts, and paths relative to the base
StoredValues ==
    { <<>>,
      <<"/", "uploads", "/", "news", "/", "a", ".", "jpg">>,
      <<"http", ":", "/", "/", "old", "/", "uploads", "/", "news", "/", "a", ".", "jpg">>,
      <<"https", ":", "/", "/", "cdn", "/", "a", ".", "jpg">>,
      <<"http", ":", "/", "/", "cdn", "/", "a", ".", "jpg">>,
      <<"img", "/", "a", ".", "jpg">>,
      <<"/", "img", "/", "a", ".", "jpg">>,
      <<"uploads", "/", "a", ".", "jpg">>,
      <<"/", "x", "/", "uploads", "/", "a", "/", "uploads", "/", "b">>,
      <<"/", "uploads">>,
      <<"loads", "/", "a", ".", "jpg">> }

\* values of BASE_URL: unset, with a scheme, with a trailing slash, without a
\* scheme, with a path
BaseURLs ==
    { <<>>,
      <<"http", ":", "/", "/", "h">>,
      <<"https", ":", "/", "/", "h">>,
      <<"http", ":", "/", "/", "h", "/">>,
      <<"h", ":", "8080">>,
      <<"http", ":", "/", "/", "h", "/", "uploads">>,
      <<"http", ":", "/", "/", "h", "/", "up">> }

\* a handler rewrites a stored value for a response
PrependBaseURLCall(imageURL, baseURL) ==
    /\ rewrite' = [stored |-> imageURL, base |-> baseURL,
                   out |-> PrependBaseURL(imageURL, baseURL),
                   prev |-> <<>>, applied |-> 1]
    /\ UNCHANGED <<files, dirs, made, call, lastDelete, other, cancelledAt, web, more>>

\* the rewritten value is rewritten again with the same base
PrependBaseURLAgain ==
    /\ rewrite.applied = 1
    /\ rewrite' = [rewrite EXCEPT !.prev = rewrite.out,
                                  !.out = PrependBaseURL(rewrite.out, rewrite.base),
                                  !.applied = 2]
    /\ UNCHANGED <<files, dirs, made, call, lastDelete, other, cancelledAt, web, more>>

(* ------------------------------------------------------------------ *)
(* Read handlers                                                       *)
(* ------------------------------------------------------------------ *)
\* what config.GetEnv("BASE_URL", "") returns: the public origin of the deployment
ConfiguredBaseURLs == { <<"http", ":", "/", "/", "h">> }

\* the image URLs of the rows of a kind, as a query returns them
Items(d, kind) == IF d[kind].present THEN << d[kind].ImageURL >> ELSE << >>

\* PrependBaseURL on every item of a response
WithBase(items, baseURL) ==
    [i \in 1..Len(items) |-> PrependBaseURL(items[i], baseURL)]

\* no write handler is between its steps
Quiet == req.pc = "idle" /\ call.pc = "idle"

\* a read through the cache: CacheGet (a miss also when Redis is away), on a
\* miss the query, CacheSet of what the query returned, and the response;
\* onHit and onMiss say whether the handler passes the image URLs through
\* PrependBaseURL on that path; missing is the status of a query that fails
\* or, for one record, finds nothing
CachedRead(handler, key, found, missing, onHit, onMiss) ==
    /\ Quiet
    /\ \E baseURL \in ConfiguredBaseURLs, redisOK \in BOOLEAN, dbOK \in BOOLEAN :
         LET fromDB == Items(db, key[1])
         IN  IF redisOK /\ cache[key].hit
             THEN /\ cache' = cache
                  /\ resp' = Response(handler, 200, cache[key].items,
                                      IF onHit THEN WithBase(cache[key].items, baseURL)
                                      ELSE cache[key].items,
                                      baseURL, TRUE)
             ELSE IF ~dbOK \/ ~found
             THEN /\ cache' = cache
                  /\ resp' = Response(handler, missing, <<>>, <<>>, baseURL, FALSE)
             ELSE /\ cache' = IF redisOK THEN [cache EXCEPT ![key] = Entry(fromDB)]
                              ELSE cache
                  /\ resp' = Response(handler, 200, fromDB,
                                      IF onMiss THEN WithBase(fromDB, baseURL)
                                      ELSE fromDB,
                                      baseURL, FALSE)
    /\ UNCHANGED <<files, dirs, made, call, lastDelete, rewrite, other, cancelledAt,
                   db, req, more>>

GetHoles == CachedRead("GetHoles", <<"holes", "list">>, TRUE, 500, TRUE, TRUE)

GetHole ==
    CachedRead("GetHole", <<"holes", "id">>, db["holes"].present, 404, TRUE, TRUE)

GetNews == CachedRead("GetNews", <<"news", "list">>, TRUE, 500, FALSE, FALSE)

GetNewsBySlug(slug) ==
    CachedRead("GetNewsBySlug", <<"news", "slug", slug>>,
               db["news"].present /\ db["news"].Slug = slug, 404, FALSE, FALSE)

GetNewsByID ==
    CachedRead("GetNewsByID", <<"news", "id">>, db["news"].present, 404, FALSE, FALSE)

GetEvents == CachedRead("GetEvents", <<"events", "list">>, TRUE, 500, FALSE, TRUE)

GetEventBySlug(slug) ==
    CachedRead("GetEventBySlug", <<"events", "slug", slug>>,
               db["events"].present /\ db["events"].Slug = slug, 404, FALSE, TRUE)

GetEventByID ==
    CachedRead("GetEventByID", <<"events", "id">>, db["events"].present, 404,
               FALSE, TRUE)

\* GetPosts: news and events in one list, without the cache
GetPosts ==
    /\ Quiet
    /\ \E baseURL \in ConfiguredBaseURLs, dbOK \in BOOLEAN :
         LET fromDB == Items(db, "news") \o Items(db, "events")
         IN  resp' = IF dbOK
                     THEN Response("GetPosts", 200, fromDB, fromDB, baseURL, FALSE)
                     ELSE Response("GetPosts", 500, <<>>, <<>>, baseURL, FALSE)
    /\ UNCHANGED <<files, dirs, made, call, lastDelete, rewrite, other, cancelledAt,
                   db, cache, req, more>>

ReadHandlers ==
    { "GetHoles", "GetHole", "GetNews", "GetNewsBySlug", "GetNewsByID",
      "GetEvents", "GetEventBySlug", "GetEventByID", "GetPosts" }

(* ------------------------------------------------------------------ *)
(* Create and update handlers                                          *)
(* ------------------------------------------------------------------ *)
\* the image parts of the forms the handlers receive; NoUpload is a form
\* without an image part (r.FormFile returns an error)
NoUpload == Upload(NoBytes, <<>>)

FormImages ==
    { Upload(Bytes(<<255, 216, 255, 217>>, 0), <<"a", ".", "jpg">>),
      Upload(Bytes(<<71, 73, 70, 56, 57, 97, 1>>, 0), <<"a", ".", "gif">>) }

\* the image operations of an update form: text fields only, delete_image=true,
\* or an image part
UpdateModes == {"fields", "delete_image", "image"}

HandlerOf(verb, kind) ==
    verb \o (CASE kind = "news" -> "News" [] kind = "events" -> "Event"
                [] kind = "holes" -> "Hole")

\* what a handler leaves behind when it returns
Outcome5(fs, ds, d, c, r) == [files |-> fs, dirs |-> ds, db |-> d, cache |-> c, resp |-> r]

SaveFailedIn_Never(c) == FALSE

\* imageResult, err := utils.SaveImage(...); if err != nil
SaveFailedIn(c) == c.err # "ok"

\* the image URL a response carries: holes and events handlers pass it
\* through PrependBaseURL, UpdateNews does not
InResponse(kind, imageURL, baseURL) ==
    IF kind = "news" THEN imageURL ELSE PrependBaseURL(imageURL, baseURL)

\* the keys a successful update deletes from the cache: the list pages, the
\* record by id and, for news and events, by slug; record is the row as the
\* handler holds it when it saves, the slug of the form already assigned, and
\* oldSlug is read from it
UpdatedKeys(kind, record, slugSent) ==
    LET oldSlug == record.Slug
    IN  { <<kind, "list">>, <<kind, "id">> }
          \cup (IF kind = "holes" THEN {} ELSE { <<kind, "slug", oldSlug>> })
          \cup (IF kind # "holes" /\ slugSent /\ record.Slug # oldSlug
                THEN { <<kind, "slug", record.Slug>> } ELSE {})

Invalidate(c, keys) == [key \in CacheKeys |-> IF key \in keys THEN Miss ELSE c[key]]

\* a create handler from the slug check on: the slug exists (news, events),
\* or db.Create fails, and the saved image is deleted; or the row is created
\* and the list pages leave the cache
CleanUp_Skipped(kind, imageURL, removeOK) == Outcome("ok", files, dirs)

\* if imageURL != "" { utils.DeleteImage(imageURL) } of CreateNews and
\* CreateEvent, utils.DeleteImage(imageResult.URL) of CreateHole; what
\* DeleteImage returns is dropped
CleanUp(kind, imageURL, removeOK) ==
    IF imageURL # <<>> \/ kind = "holes"
    THEN DeleteImage(files, dirs, imageURL, removeOK)
    ELSE Outcome("ok", files, dirs)

CreateRecord(kind, imageURL, dbOK, removeOK, baseURL) ==
    LET handler == HandlerOf("Create", kind)
        swept == CleanUp(kind, imageURL, removeOK)
    IN  IF kind # "holes" /\ db[kind].present
        THEN Outcome5(swept.files, swept.dirs, db, cache,
                      Response(handler, 422, <<>>, <<>>, baseURL, FALSE))
        ELSE IF ~dbOK
        THEN Outcome5(swept.files, swept.dirs, db, cache,
                      Response(handler, 500, <<>>, <<>>, baseURL, FALSE))
        ELSE Outcome5(files, dirs,
                      [db EXCEPT ![kind] =
                          [present |-> TRUE, ImageURL |-> imageURL,
                           Slug |-> IF kind = "holes" THEN NoSlug ELSE "s1"]],
                      Invalidate(cache, { <<kind, "list">> }),
                      IF kind = "holes"
                      THEN Response(handler, 201, <<imageURL>>,
                                    <<PrependBaseURL(imageURL, baseURL)>>, baseURL, FALSE)
                      ELSE Response(handler, 201, <<>>, <<>>, baseURL, FALSE))

\* an update handler from db.Save on, with the image URL the row now has,
\* the slug field of the form, and the files as the image operation has left
\* them
SaveRecord(kind, imageURL, slug, fs, ds, dbOK, baseURL) ==
    LET handler == HandlerOf("Update", kind)
        record == [present |-> TRUE, ImageURL |-> imageURL,
                   Slug |-> IF slug # NoSlug THEN slug ELSE db[kind].Slug]
    IN  IF ~dbOK
        THEN Outcome5(fs, ds, db, cache,
                      Response(handler, 500, <<>>, <<>>, baseURL, FALSE))
        ELSE Outcome5(fs, ds,
                      [db EXCEPT ![kind] = record],
                      Invalidate(cache, UpdatedKeys(kind, record, slug # NoSlug)),
                      Response(handler, 200, <<imageURL>>,
                               <<InResponse(kind, imageURL, baseURL)>>, baseURL, FALSE))

\* the handler returns: its effects and its response
Leave(out) ==
    /\ files' = out.files
    /\ dirs' = out.dirs
    /\ db' = out.db
    /\ cache' = out.cache
    /\ resp' = out.resp

\* a create handler up to its call of SaveImage; without an image part
\* CreateNews and CreateEvent go on to the database, CreateHole answers 400
CreateCall(kind, image) ==
    /\ Quiet
    /\ kind = "holes" => ~db[kind].present
    /\ db[kind].present \/ Cardinality({ k \in Kinds : db[k].present }) < MaxRecords
    /\ IF image = NoUpload
       THEN /\ \E dbOK \in BOOLEAN, baseURL \in ConfiguredBaseURLs :
                 Leave(IF kind = "holes"
                       THEN Outcome5(files, dirs, db, cache,
                                     Response("CreateHole", 400, <<>>, <<>>, baseURL, FALSE))
                       ELSE CreateRecord(kind, <<>>, dbOK, TRUE, baseURL))
            /\ UNCHANGED <<made, call, req>>
       ELSE /\ made < MaxUploads
            /\ call' = SaveImageEntry(image.content, image.name, <<kind>>)
            /\ req' = [handler |-> HandlerOf("Create", kind), kind |-> kind,
                       pc |-> "saving", slug |-> NoSlug]
            /\ resp' = NoResponse
            /\ UNCHANGED <<files, dirs, made, db, cache>>
    /\ UNCHANGED <<lastDelete, rewrite, other, cancelledAt, more>>

CreateNews(image) == CreateCall("news", image)

CreateEvent(image) == CreateCall("events", image)

CreateHole(image) == CreateCall("holes", image)

\* SaveImage has returned into the handler that called it
SaveReturnedTo(verb) ==
    /\ req.pc = "saving"
    /\ req.handler = HandlerOf(verb, req.kind)
    /\ call.op = "SaveImage" /\ call.pc = "done"

\* the DeleteImage call a handler has made and that has returned
DeleteImageReturned(url, err) ==
    [Idle EXCEPT !.op = "DeleteImage", !.url = url, !.err = err]

\* the rest of a create handler after SaveImage; when the record is not
\* created, the last call the handler has made is the DeleteImage of the
\* saved image
CreateAfterSave ==
    /\ SaveReturnedTo("Create")
    /\ \E dbOK \in BOOLEAN, removeOK \in BOOLEAN, baseURL \in ConfiguredBaseURLs :
         LET out == CreateRecord(req.kind, call.result.URL, dbOK, removeOK, baseURL)
         IN  IF SaveFailedIn(call)
             THEN /\ Leave(Outcome5(files, dirs, db, cache,
                                    Response(req.handler, 400, <<>>, <<>>, baseURL, FALSE)))
                  /\ call' = Idle
             ELSE /\ Leave(out)
                  /\ call' = IF out.resp.status = 201 THEN Idle
                              ELSE DeleteImageReturned(
                                     call.result.URL,
                                     CleanUp(req.kind, call.result.URL, removeOK).err)
    /\ req' = NoRequest
    /\ UNCHANGED <<made, lastDelete, rewrite, other, cancelledAt, more>>

\* an update handler up to its call of SaveImage; with delete_image=true the
\* old file is deleted and the row saved without an image, with text fields
\* only the row is saved as it is
UpdateCall(kind, mode, image, slug) ==
    /\ Quiet
    /\ IF ~db[kind].present
       THEN /\ \E baseURL \in ConfiguredBaseURLs :
                 resp' = Response(HandlerOf("Update", kind), 404, <<>>, <<>>,
                                  baseURL, FALSE)
            /\ UNCHANGED <<files, dirs, made, call, db, cache, req>>
       ELSE IF mode = "image"
       THEN /\ made < MaxUploads
            /\ call' = SaveImageEntry(image.content, image.name, <<kind>>)
            /\ req' = [handler |-> HandlerOf("Update", kind), kind |-> kind,
                       pc |-> "saving", slug |-> slug]
            /\ resp' = NoResponse
            /\ UNCHANGED <<files, dirs, made, db, cache>>
       ELSE /\ \E dbOK \in BOOLEAN, removeOK \in BOOLEAN,
                   baseURL \in ConfiguredBaseURLs :
                 LET old == db[kind].ImageURL
                     swept == IF mode = "delete_image" /\ old # <<>>
                              THEN DeleteImage(files, dirs, old, removeOK)
                              ELSE Outcome("ok", files, dirs)
                 IN  Leave(SaveRecord(kind,
                                      IF mode = "delete_image" THEN <<>> ELSE old,
                                      slug, swept.files, swept.dirs, dbOK, baseURL))
            /\ UNCHANGED <<made, call, req>>
    /\ UNCHANGED <<lastDelete, rewrite, other, cancelledAt, more>>

UpdateNews(mode, image, slug) == UpdateCall("news", mode, image, slug)

UpdateEvent(mode, image, slug) == UpdateCall("events", mode, image, slug)

UpdateHole(mode, image) == UpdateCall("holes", mode, image, NoSlug)

\* the rest of an update handler after SaveImage: the old file is deleted,
\* then the row is saved with the new URL
UpdateAfterSave ==
    /\ SaveReturnedTo("Update")
    /\ \E dbOK \in BOOLEAN, removeOK \in BOOLEAN, baseURL \in ConfiguredBaseURLs :
         LET old == db[req.kind].ImageURL
             swept == IF old # <<>> THEN DeleteImage(files, dirs, old, removeOK)
                      ELSE Outcome("ok", files, dirs)
         IN  Leave(IF SaveFailedIn(call)
                   THEN Outcome5(files, dirs, db, cache,
                                 Response(req.handler, 400, <<>>, <<>>, baseURL, FALSE))
                   ELSE SaveRecord(req.kind, call.result.URL, req.slug,
                                   swept.files, swept.dirs, dbOK, baseURL))
    /\ call' = Idle
    /\ req' = NoRequest
    /\ UNCHANGED <<made, lastDelete, rewrite, other, cancelledAt, more>>

\* a delete handler: the row is read, deleted, and then its image file is
\* removed; what DeleteImage returns is dropped
DeleteCall(kind) ==
    /\ Quiet
    /\ \E dbOK \in BOOLEAN, removeOK \in BOOLEAN, baseURL \in ConfiguredBaseURLs :
         LET handler == HandlerOf("Delete", kind)
             old == db[kind]
             swept == DeleteImage(files, dirs, old.ImageURL, removeOK)
         IN  Leave(IF ~old.present
                   THEN Outcome5(files, dirs, db, cache,
                                 Response(handler, 404, <<>>, <<>>, baseURL, FALSE))
                   ELSE IF ~dbOK
                   THEN Outcome5(files, dirs, db, cache,
                                 Response(handler, 500, <<>>, <<>>, baseURL, FALSE))
                   ELSE Outcome5(swept.files, swept.dirs,
                                 [db EXCEPT ![kind] = NoRow],
                                 Invalidate(cache, UpdatedKeys(kind, old, FALSE)),
                                 Response(handler, 200, <<>>, <<>>, baseURL, FALSE)))
    /\ UNCHANGED <<made, call, req, lastDelete, rewrite, other, cancelledAt, more>>

DeleteNews == DeleteCall("news")

DeleteEvent == DeleteCall("events")

DeleteHole == DeleteCall("holes")

WriteHandlers ==
    { HandlerOf(verb, kind) : verb \in {"Create", "Update"}, kind \in Kinds }

(* ------------------------------------------------------------------ *)
(* ReorderHoles                                                        *)
(* ------------------------------------------------------------------ *)
\* tx.Model(&models.Hole{}).Where("id = ?", id).Update("hole_index", newIndex):
\* the row with that id, if it exists; no row is no error
UpdateIndex(table, id, newIndex) ==
    [h \in DOMAIN table |->
       IF h = id /\ table[h].exists
       THEN [table[h] EXCEPT !.hole_index = newIndex]
       ELSE table[h]]

RECURSIVE UpdateFirst(_, _, _)
\* the first n rounds of 'for i, id := range req.HoleIDs': newIndex is i + 1
UpdateFirst(table, ids, n) ==
    IF n = 0 THEN table
    ELSE UpdateIndex(UpdateFirst(table, ids, n - 1), ids[n], n)

RolledBack_KeepsWrites(before, written) == written

\* tx.Rollback(), or a Commit that fails: the table is as it was at Begin
RolledBack(before, written) == before

\* the request bodies: every list of at most MaxList hole ids
MaxList == 2

HoleLists == UNION { [1..n -> HoleIDs] : n \in 0..MaxList }

\* ReorderHoles; beginOK, failAt and commitOK are the outcomes of db.Begin, of
\* the updates (failAt = 0: none fails) and of tx.Commit
ReorderHoles(hole_ids) ==
    /\ Quiet
    /\ \E beginOK \in BOOLEAN, commitOK \in BOOLEAN, failAt \in 0..Len(hole_ids),
          baseURL \in ConfiguredBaseURLs :
         LET answer(status) == Response("ReorderHoles", status, <<>>, <<>>, baseURL, FALSE)
             done == IF failAt = 0 THEN Len(hole_ids) ELSE failAt - 1
             written == UpdateFirst(holeIndex, hole_ids, done)
         IN  IF Len(hole_ids) = 0
             THEN /\ resp' = answer(400)
                  /\ reorder' = [ids |-> hole_ids, status |-> 400, applied |-> 0]
                  /\ UNCHANGED <<holeIndex, cache>>
             ELSE IF ~beginOK
             THEN /\ resp' = answer(500)
                  /\ reorder' = [ids |-> hole_ids, status |-> 500, applied |-> 0]
                  /\ UNCHANGED <<holeIndex, cache>>
             ELSE IF failAt # 0 \/ ~commitOK
             THEN /\ resp' = answer(500)
                  /\ reorder' = [ids |-> hole_ids, status |-> 500, applied |-> done]
                  /\ holeIndex' = RolledBack(holeIndex, written)
                  /\ cache' = cache
             ELSE /\ resp' = answer(200)
                  /\ reorder' = [ids |-> hole_ids, status |-> 200, applied |-> done]
                  /\ holeIndex' = written
                  /\ cache' = Invalidate(cache, { <<"holes", "list">> })
    /\ UNCHANGED <<files, dirs, made, call, lastDelete, rewrite, other, cancelledAt,
                   db, req, guard, listing, reader>>

(* ------------------------------------------------------------------ *)
(* The router: CORSMiddleware, AuthMiddleware, RequireAdmin, users      *)
(* ------------------------------------------------------------------ *)
\* db.Where("id = ?", claims.UserID).First(&user): soft-deleted rows are not found
StillExists_Unchecked(us, id, dbOK) == TRUE

StillExists(us, id, dbOK) == dbOK /\ us[id].state = "live"

\* AuthMiddleware: the status it answers, or 0 and the context it hands on
AuthMiddleware(method, header, ctx, us, dbOK) ==
    IF method = "OPTIONS" THEN [status |-> 0, ctx |-> ctx]
    ELSE IF header = <<>> THEN [status |-> 401, ctx |-> ctx]
    ELSE IF Len(header) # 2 \/ header[1] # "Bearer" THEN [status |-> 401, ctx |-> ctx]
    ELSE LET v == ValidateJWT(header[2])
         IN  IF v.err THEN [status |-> 401, ctx |-> ctx]
             ELSE IF ~StillExists(us, v.claims.UserID, dbOK)
             THEN [status |-> 401, ctx |-> ctx]
             ELSE [status |-> 0, ctx |-> WithValue(ctx, UserContextKey, v.claims)]

\* RequireRole(role): 0 lets the request on
RequireRole(role, ctx) ==
    LET claims == Value(ctx, UserContextKey)
    IN  IF claims.nil THEN 401
        ELSE IF claims.Role # role /\ claims.Role # "admin" THEN 403
        ELSE 0

RequireAdmin(method, ctx) ==
    IF method = "OPTIONS" THEN 0 ELSE RequireRole("admin", ctx)

\* the middleware of a route, in the order the routers apply it
Chain(route, method, header, us, dbOK) ==
    LET auth == IF route.chain = "public"
                THEN [status |-> 0, ctx |-> Background]
                ELSE AuthMiddleware(method, header, Background, us, dbOK)
    IN  IF auth.status # 0 THEN auth
        ELSE IF route.chain = "admin" /\ RequireAdmin(method, auth.ctx) # 0
        THEN [status |-> RequireAdmin(method, auth.ctx), ctx |-> auth.ctx]
        ELSE auth

\* the id a new row gets
NewUserID(us) == CHOOSE u \in UserIDs : us[u].state = "none"

\* Register: the row it creates
Register(us, body, hashOK, dbOK) ==
    IF ~body.json THEN [status |-> 400, users |-> us, panicked |-> FALSE]
    ELSE IF body.password = "-" THEN [status |-> 422, users |-> us, panicked |-> FALSE]
    ELSE IF ~hashOK \/ ~dbOK THEN [status |-> 500, users |-> us, panicked |-> FALSE]
    ELSE [status |-> 201, panicked |-> FALSE,
          users |-> [us EXCEPT ![NewUserID(us)] =
                      [state |-> "live",
                       Role |-> IF body.role = "-" THEN "user" ELSE body.role,
                       Password |-> HashPassword(body.password)]]]

\* GetCurrentUser
GetCurrentUser(us, ctx, dbOK) ==
    LET claims == Value(ctx, UserContextKey)
    IN  [status |-> IF claims.nil THEN 401
                    ELSE IF ~StillExists(us, claims.UserID, dbOK) THEN 404 ELSE 200,
         users |-> us, panicked |-> FALSE]

\* db.Model(&user).Updates(updates)
Updates(row, role, password) ==
    [row EXCEPT !.Role = IF role = "-" THEN @ ELSE role,
                !.Password = IF password = "-" THEN @ ELSE password]

\* UpdateUser: claims.Role of a nil claims is a nil pointer dereference
UpdateUser(us, ctx, id, body, hashOK, dbOK) ==
    LET claims == Value(ctx, StringKey("user"))
        role == IF claims.Role # "admin" THEN "-" ELSE body.role
        password == IF body.password = "-" THEN "-" ELSE HashPassword(body.password)
    IN  IF claims.nil THEN [status |-> 0, users |-> us, panicked |-> TRUE]
        ELSE IF claims.Role # "admin" /\ claims.UserID # id
        THEN [status |-> 403, users |-> us, panicked |-> FALSE]
        ELSE IF ~body.json THEN [status |-> 400, users |-> us, panicked |-> FALSE]
        ELSE IF body.password # "-" /\ ~hashOK
        THEN [status |-> 500, users |-> us, panicked |-> FALSE]
        ELSE IF us[id].state # "live" THEN [status |-> 404, users |-> us, panicked |-> FALSE]
        ELSE IF ~dbOK THEN [status |-> 500, users |-> us, panicked |-> FALSE]
        ELSE [status |-> 200, panicked |-> FALSE,
              users |-> [us EXCEPT ![id] = Updates(@, role, password)]]

\* DeleteUser: db.Delete sets deleted_at, whether or not a live row has the id
DeleteUser(us, id, dbOK) ==
    IF ~dbOK THEN [status |-> 500, users |-> us, panicked |-> FALSE]
    ELSE [status |-> 200, panicked |-> FALSE,
          users |-> [us EXCEPT ![id] =
                      IF @.state = "live" THEN [@ EXCEPT !.state = "deleted"] ELSE @]]

\* the handlers of the users; every other handler answers for itself
Handle(route, us, ctx, id, body, hashOK, dbOK) ==
    IF route.handler = "Options" THEN [status |-> 200, users |-> us, panicked |-> FALSE]
    ELSE IF route.handler = "Register" THEN Register(us, body, hashOK, dbOK)
    ELSE IF route.handler = "GetCurrentUser" THEN GetCurrentUser(us, ctx, dbOK)
    ELSE IF route.handler = "UpdateUser" THEN UpdateUser(us, ctx, id, body, hashOK, dbOK)
    ELSE IF route.handler = "DeleteUser" THEN DeleteUser(us, id, dbOK)
    ELSE [status |-> 0, users |-> us, panicked |-> FALSE]

\* one request through the router
ServeHTTP(route, header, id, body) ==
    /\ Len(header) = 2 /\ header[2].good => IssuedTo(users, header[2])
    /\ route.handler = "Register" => \E u \in UserIDs : users[u].state = "none"
    /\ \E lookupOK \in (IF route.chain = "public" THEN {TRUE} ELSE BOOLEAN),
          hashOK \in (IF route.handler \in BodyHandlers THEN BOOLEAN ELSE {TRUE}),
          dbOK \in (IF route.handler \in UserHandlers THEN BOOLEAN ELSE {TRUE}) :
         LET method == route.method
             through == Chain(route, method, header, users, lookupOK)
             done == Handle(route, users, through.ctx, id, body, hashOK, dbOK)
         IN  IF through.status # 0
             THEN /\ gate' = Pass(method, route, header, id, body, FALSE,
                                  through.status, FALSE)
                  /\ users' = users
             ELSE /\ gate' = Pass(method, route, header, id, body, TRUE,
                                  done.status, done.panicked)
                  /\ users' = done.users
    /\ UNCHANGED <<files, dirs, made, call, lastDelete, rewrite, other, cancelledAt,
                   web, board, listing, reader>>

NextRouter ==
    \E route \in Routes, header \in AuthHeaders :
        \E id \in (IF route.handler \in IdHandlers THEN UserIDs ELSE {"-"}),
           body \in (IF route.handler \in BodyHandlers THEN Bodies ELSE {NoBody}) :
            ServeHTTP(route, header, id, body)

SpecRouter == Init /\ [][NextRouter]_vars

(* ------------------------------------------------------------------ *)
(* GetPosts: the merged, sorted and paginated list of posts             *)
(* ------------------------------------------------------------------ *)
\* a Go int of 64 bits in two's complement: four limbs of 16 bits, lowest first
Radix == 2 ^ 16

Int64(n) == <<n % Radix, n \div Radix, 0, 0>>

\* x * k + a in 64 bits, and what did not fit
MulAdd(x, k, a) ==
    LET p1 == x[1] * k + a
        p2 == x[2] * k + p1 \div Radix
        p3 == x[3] * k + p2 \div Radix
        p4 == x[4] * k + p3 \div Radix
    IN  [limbs |-> <<p1 % Radix, p2 % Radix, p3 % Radix, p4 % Radix>>,
         carry |-> p4 \div Radix]

\* x * k and x + a as the machine computes them: the result modulo 2^64
Times(x, k) == MulAdd(x, k, 0).limbs

Plus(x, a) == MulAdd(x, 1, a).limbs

\* x - 1 of a positive x
Minus1(x) ==
    IF x[1] > 0 THEN <<x[1] - 1, x[2], x[3], x[4]>>
    ELSE IF x[2] > 0 THEN <<Radix - 1, x[2] - 1, x[3], x[4]>>
    ELSE IF x[3] > 0 THEN <<Radix - 1, Radix - 1, x[3] - 1, x[4]>>
    ELSE <<Radix - 1, Radix - 1, Radix - 1, x[4] - 1>>

IsNegative(x) == x[4] >= Radix \div 2

IsZero(x) == x = Int64(0)

\* a value that is a small natural number, and that number
IsSmall(x) == x[3] = 0 /\ x[4] = 0 /\ x[2] < Radix \div 4

Small(x) == x[1] + Radix * x[2]

\* x > n and x <= n for a small natural number n, signed
Exceeds(x, n) == ~IsNegative(x) /\ (~IsSmall(x) \/ Small(x) > n)

\* the decimal digits
DigitChars == <<"0", "1", "2", "3", "4", "5", "6", "7", "8", "9">>

DigitOf(c) == (CHOOSE i \in 1..10 : DigitChars[i] = c) - 1

IsDigit(c) == \E i \in 1..10 : DigitChars[i] = c

RECURSIVE ParseDigits(_, _)
ParseDigits(s, acc) ==
    IF s = <<>> THEN [n |-> acc, err |-> FALSE]
    ELSE IF ~IsDigit(Head(s)) THEN [n |-> Int64(0), err |-> TRUE]
    ELSE LET next == MulAdd(acc, 10, DigitOf(Head(s)))
         IN  IF next.carry # 0 \/ IsNegative(next.limbs)
             THEN [n |-> Int64(0), err |-> TRUE]
             ELSE ParseDigits(Tail(s), next.limbs)

\* strconv.Atoi of an unsigned or negative decimal: a negative number is reported
\* by its sign alone, which is all the handler looks at
Atoi(s) ==
    IF s = <<>> THEN [n |-> Int64(0), err |-> TRUE, negative |-> FALSE]
    ELSE IF Head(s) = "-"
    THEN [n |-> Int64(0), err |-> Tail(s) = <<>> \/ ParseDigits(Tail(s), Int64(0)).err,
          negative |-> TRUE]
    ELSE LET p == ParseDigits(s, Int64(0))
         IN  [n |-> p.n, err |-> p.err, negative |-> FALSE]

\* the decimal string of a small natural number
RECURSIVE Itoa(_)
Itoa(n) ==
    IF n < 10 THEN <<DigitChars[n + 1]>>
    ELSE Itoa(n \div 10) \o <<DigitChars[(n % 10) + 1]>>

\* the page and the limit of the query string
PageOf(pageStr) ==
    LET p == Atoi(pageStr)
    IN  IF pageStr # <<>> /\ ~p.err /\ ~p.negative /\ ~IsZero(p.n) THEN p.n ELSE Int64(1)

LimitOf(limitStr) ==
    LET l == Atoi(limitStr)
    IN  IF limitStr # <<>> /\ ~l.err /\ ~l.negative /\ ~IsZero(l.n) /\ ~Exceeds(l.n, 100)
        THEN Small(l.n) ELSE 10

\* the rows of a table that are published
RECURSIVE Published(_)
Published(rows) ==
    IF rows = <<>> THEN <<>>
    ELSE (IF Head(rows).Published THEN <<Head(rows)>> ELSE <<>>) \o Published(Tail(rows))

\* ORDER BY created_at DESC of the database
RECURSIVE OrderDesc(_)
OrderDesc(rows) ==
    IF rows = <<>> THEN <<>>
    ELSE LET i == CHOOSE k \in 1..Len(rows) :
                      /\ \A m \in 1..Len(rows) : rows[m].CreatedAt <= rows[k].CreatedAt
                      /\ \A m \in 1..(k - 1) : rows[m].CreatedAt < rows[k].CreatedAt
         IN  <<rows[i]>> \o OrderDesc(SubSeq(rows, 1, i - 1) \o SubSeq(rows, i + 1, Len(rows)))

Swap(s, i, j) == [s EXCEPT ![i] = s[j], ![j] = s[i]]

\* the two loops that sort allPosts in place
RECURSIVE SortInner(_, _, _)
SortInner(s, i, j) ==
    IF j > Len(s) THEN s
    ELSE SortInner(IF s[i].CreatedAt < s[j].CreatedAt THEN Swap(s, i, j) ELSE s, i, j + 1)

RECURSIVE SortOuter(_, _)
SortOuter(s, i) == IF i >= Len(s) THEN s ELSE SortOuter(SortInner(s, i, i + 1), i + 1)

SortPosts(allPosts) == SortOuter(allPosts, 1)

\* LIMIT and OFFSET of a query: an offset that is not positive is not sent
LimitOffset(rows, limit, offset) ==
    IF IsNegative(offset) \/ IsZero(offset) THEN SubSeq(rows, 1, Min(limit, Len(rows)))
    ELSE IF Exceeds(offset, Len(rows)) THEN <<>>
    ELSE SubSeq(rows, Small(offset) + 1, Min(Small(offset) + limit, Len(rows)))

Meta(page, limit, total) ==
    [Page |-> page, Limit |-> limit, Total |-> total,
     TotalPages |-> (total \div limit) + (IF (total % limit) # 0 THEN 1 ELSE 0)]

NoMeta == [Page |-> Int64(1), Limit |-> 10, Total |-> 0, TotalPages |-> 0]

\* what GetPosts answers: status 0 and panicked when the slice expression panics
PostsAnswer(status, panicked, posts, meta, start, end) ==
    [status |-> status, panicked |-> panicked, posts |-> posts, meta |-> meta,
     start |-> start, end |-> end]

PostsOf(typeParam, pageStr, limitStr, news, events, newsOK, eventsOK) ==
    LET page == PageOf(pageStr)
        limit == LimitOf(limitStr)
        offset == Times(Minus1(page), limit)
        failed == PostsAnswer(500, FALSE, <<>>, NoMeta, Int64(0), Int64(0))
    IN  IF typeParam \notin {"", "news", "event"}
        THEN PostsAnswer(400, FALSE, <<>>, NoMeta, Int64(0), Int64(0))
        ELSE IF typeParam = "news"
        THEN IF ~newsOK THEN failed
             ELSE PostsAnswer(200, FALSE,
                              LimitOffset(OrderDesc(Published(news)), limit, offset),
                              Meta(page, limit, Len(Published(news))), Int64(0), Int64(0))
        ELSE IF typeParam = "event"
        THEN IF ~eventsOK THEN failed
             ELSE PostsAnswer(200, FALSE,
                              LimitOffset(OrderDesc(Published(events)), limit, offset),
                              Meta(page, limit, Len(Published(events))), Int64(0), Int64(0))
        ELSE IF ~newsOK \/ ~eventsOK THEN failed
        ELSE LET allPosts == SortPosts(OrderDesc(Published(news))
                                         \o OrderDesc(Published(events)))
                 n == Len(allPosts)
                 start == IF Exceeds(offset, n) THEN Int64(n) ELSE offset
                 end == IF Exceeds(Plus(offset, limit), n) THEN Int64(n)
                        ELSE Plus(offset, limit)
             IN  IF IsNegative(start) \/ IsNegative(end) \/ Small(end) < Small(start)
                 THEN PostsAnswer(0, TRUE, <<>>, NoMeta, start, end)
                 ELSE PostsAnswer(200, FALSE, SubSeq(allPosts, Small(start) + 1, Small(end)),
                                  Meta(page, limit, n), start, end)

\* the tables: up to MaxPosts rows in all, created at one of two instants
MaxPosts == 2

PostRows(kind, n) ==
    { [i \in 1..n |-> [ID |-> <<kind, i>>, CreatedAt |-> f[i].at, Published |-> f[i].pub]] :
        f \in [1..n -> [at : {1, 2}, pub : BOOLEAN]] }

Tables ==
    UNION { PostRows("NEWS", c[1]) \X PostRows("EVENT", c[2]) :
              c \in { d \in (0..MaxPosts) \X (0..MaxPosts) : d[1] + d[2] <= MaxPosts } }

\* the query strings of the requests
PageStrings ==
    { <<>>, <<"0">>, <<"1">>, <<"2">>, <<"3">>, <<"-", "1">>, <<"x">>,
      <<"9", "2", "2", "3", "3", "7", "2", "0", "3", "6", "8", "5", "4", "7", "7", "5", "8", "0", "7">>, <<"9", "2", "2", "3", "3", "7", "2", "0", "3", "6", "8", "5", "4", "7", "7", "5", "8", "0", "8">>, <<"4", "6", "1", "1", "6", "8", "6", "0", "1", "8", "4", "2", "7", "3", "8", "7", "9", "0", "5">>, <<"9", "2", "2", "3", "3", "7", "2", "0", "3", "6", "8", "5", "4", "7", "7", "5", "9">>, <<"6", "1", "4", "8", "9", "1", "4", "6", "9", "1", "2", "3", "6", "5", "1", "7", "2", "0", "7">> }

\* the pages asked of one table alone
FewPageStrings == { p \in PageStrings : Len(p) = 0 \/ p = <<"2">> \/ Len(p) = 17 }

LimitStrings == { <<>>, <<"1">>, <<"2">>, <<"3">>, <<"1", "0", "0">>, <<"1", "0", "1">> }

TypeParams == {"", "news", "event", "other"}

\* one request on the tables it finds: GetPosts writes nothing, so a request is
\* answered the same whatever was asked before it
GetPostsCall(typeParam, pageStr, limitStr, tables) ==
    /\ \E newsOK \in BOOLEAN, eventsOK \in BOOLEAN :
         /\ newsOK \/ eventsOK
         /\ listing' = [type |-> typeParam, pageStr |-> pageStr, limitStr |-> limitStr,
                        news |-> tables[1], events |-> tables[2],
                        answer |-> PostsOf(typeParam, pageStr, limitStr,
                                           tables[1], tables[2], newsOK, eventsOK)]
    /\ UNCHANGED <<files, dirs, made, call, lastDelete, rewrite, other, cancelledAt,
                   web, board, guard, reader>>

NextPosts ==
    /\ listing = NoListing
    /\ \E typeParam \in TypeParams :
         \E pageStr \in (IF typeParam = "" THEN PageStrings ELSE FewPageStrings),
            limitStr \in (IF typeParam = "" THEN LimitStrings ELSE {<<>>, <<"1">>}),
            tables \in Tables :
             GetPostsCall(typeParam, pageStr, limitStr, tables)

SpecPosts == Init /\ [][NextPosts]_vars

(* ------------------------------------------------------------------ *)
(* ReadAndValidateImage                                                *)
(* ------------------------------------------------------------------ *)
ReadAndValidateImageCall(content, name, size) ==
    /\ call.pc = "idle"
    /\ \E readOK \in BOOLEAN, seekOK \in BOOLEAN,
          reseekOK \in BOOLEAN, readAllOK \in BOOLEAN :
         LET header == [Filename |-> name, Size |-> size]
             r == ReadAndValidateImage(OpenFile(content), header,
                                       readOK, seekOK, reseekOK, readAllOK)
         IN  call' = [Idle EXCEPT !.op = "ReadAndValidateImage", !.pc = "done",
                                  !.upload = content, !.header = header,
                                  !.buffer = r.bytes, !.err = r.err]
    /\ UNCHANGED <<files, dirs, made, lastDelete>>
    /\ UNCHANGED aux

(* ------------------------------------------------------------------ *)
(* Specifications                                                      *)
(* ------------------------------------------------------------------ *)
\* the store: uploads are saved and deleted
Next ==
    \/ \E u \in Uploads, subfolder \in Categories :
         SaveImageCall(u.content, u.name, subfolder)
    \/ SaveValidate
    \/ SaveMkdir
    \/ SaveCreate
    \/ SaveCopy
    \/ FaultBeforeVerify
    \/ SaveReopen
    \/ SaveRevalidate
    \/ SaveStat
    \/ Return
    \/ \E url \in DeleteInputs : DeleteImageCall(url)

Spec == Init /\ [][Next]_vars

\* the URLs that do not name a stored image: a file of the working directory,
\* the same through "..", a URL with scheme and host, the upload root
OutsideInputs ==
    { <<"/", "go", ".", "mod">>,
      <<"/", "uploads", "/", ".", ".", "/", "main", ".", "go">>,
      <<"http", ":", "/", "/", "h", "/", "go", ".", "mod">>,
      <<"/", "uploads">> }

NextInRepository ==
    \/ Next
    \/ \E url \in OutsideInputs : DeleteImageCall(url)

SpecInRepository == InitInRepository /\ [][NextInRepository]_vars

\* the validators alone, on every content under every name
NextValidate ==
    \/ \E content \in Contents, name \in Filenames :
         \E size \in DeclaredSizes(content) :
           ValidateImageFileCall(content, name, size)
    \/ \E content \in Contents, name \in Filenames :
         ValidateImageBufferCall(content, name)
    \/ \E content \in Contents, name \in Filenames :
         \E size \in DeclaredSizes(content) :
           ReadAndValidateImageCall(content, name, size)
    \/ Return

SpecValidate == Init /\ [][NextValidate]_vars

\* two requests save images at once
NextConcurrent ==
    \/ \E u \in ConcurrentUploads, subfolder \in Categories :
         SaveImageCall(u.content, u.name, subfolder)
    \/ SaveValidate
    \/ SaveMkdir
    \/ SaveCreate
    \/ SaveCopy
    \/ SaveReopen
    \/ SaveRevalidate
    \/ SaveStat
    \/ Return
    \/ Switch

SpecConcurrent == Init /\ [][NextConcurrent]_vars

\* uploads are saved while requests are cancelled
NextCancel ==
    \/ \E u \in Uploads, subfolder \in Categories :
         SaveImageCall(u.content, u.name, subfolder)
    \/ SaveValidate
    \/ SaveMkdir
    \/ SaveCreate
    \/ SaveCopy
    \/ CancelRequest
    \/ SaveReopen
    \/ SaveRevalidate
    \/ SaveStat
    \/ Return

SpecCancel == Init /\ [][NextCancel]_vars

\* the create and update handlers alone
NextWrite ==
    \/ \E image \in FormImages \cup {NoUpload} : CreateNews(image)
    \/ \E image \in FormImages \cup {NoUpload} : CreateEvent(image)
    \/ \E image \in FormImages \cup {NoUpload} : CreateHole(image)
    \/ \E mode \in UpdateModes, image \in FormImages : UpdateNews(mode, image, NoSlug)
    \/ \E mode \in UpdateModes, image \in FormImages : UpdateEvent(mode, image, NoSlug)
    \/ \E mode \in UpdateModes, image \in FormImages : UpdateHole(mode, image)
    \/ SaveValidate
    \/ SaveMkdir
    \/ SaveCreate
    \/ SaveCopy
    \/ SaveReopen
    \/ SaveRevalidate
    \/ SaveStat
    \/ CreateAfterSave
    \/ UpdateAfterSave

SpecWrite == Init /\ [][NextWrite]_vars

\* the create, update and delete handlers
NextStore ==
    \/ NextWrite
    \/ DeleteNews
    \/ DeleteEvent
    \/ DeleteHole

SpecStore == Init /\ [][NextStore]_vars

\* GetHole, GetNewsByID or GetEventByID in its own goroutine, statement by
\* statement: CacheGet misses
ReadCacheGet(kind) ==
    /\ reader.pc = "idle"
    /\ \E redisOK \in BOOLEAN :
         /\ ~(redisOK /\ cache[<<kind, "id">>].hit)
         /\ reader' = [pc |-> "missed", handler |-> HandlerOf("Get", kind) \o "ByID",
                       kind |-> kind, items |-> <<>>]
    /\ UNCHANGED <<files, dirs, made, call, lastDelete, rewrite, other, cancelledAt,
                   web, board, guard, listing>>

\* db.First: the row as it is at this moment, or 404
ReadQuery ==
    /\ reader.pc = "missed"
    /\ \E dbOK \in BOOLEAN, baseURL \in ConfiguredBaseURLs :
         IF ~dbOK \/ ~db[reader.kind].present
         THEN /\ resp' = Response(reader.handler, 404, <<>>, <<>>, baseURL, FALSE)
              /\ reader' = NoReader
         ELSE /\ resp' = resp
              /\ reader' = [reader EXCEPT !.pc = "read", !.items = Items(db, reader.kind)]
    /\ UNCHANGED <<files, dirs, made, call, lastDelete, rewrite, other, cancelledAt,
                   db, cache, req, board, guard, listing>>

\* CacheSet of the row that was read, and the response
ReadCacheSet ==
    /\ reader.pc = "read"
    /\ \E redisOK \in BOOLEAN, baseURL \in ConfiguredBaseURLs :
         /\ cache' = IF redisOK
                      THEN [cache EXCEPT ![<<reader.kind, "id">>] = Entry(reader.items)]
                      ELSE cache
         /\ resp' = Response(reader.handler, 200, reader.items, reader.items,
                              baseURL, FALSE)
    /\ reader' = NoReader
    /\ UNCHANGED <<files, dirs, made, call, lastDelete, rewrite, other, cancelledAt,
                   db, req, board, guard, listing>>

\* the write handlers, and beside them one read of a record through the cache
NextRace ==
    \/ CreateNews(NoUpload)
    \/ CreateEvent(NoUpload)
    \/ \E image \in FormImages : CreateHole(image)
    \/ \E mode \in UpdateModes \ {"image"}, image \in FormImages :
          UpdateNews(mode, image, NoSlug)
    \/ \E mode \in UpdateModes \ {"image"}, image \in FormImages :
          UpdateEvent(mode, image, NoSlug)
    \/ \E mode \in UpdateModes \ {"image"}, image \in FormImages :
          UpdateHole(mode, image)
    \/ SaveValidate
    \/ SaveMkdir
    \/ SaveCreate
    \/ SaveCopy
    \/ SaveReopen
    \/ SaveRevalidate
    \/ SaveStat
    \/ CreateAfterSave
    \/ DeleteNews
    \/ DeleteEvent
    \/ DeleteHole
    \/ \E kind \in Kinds : ReadCacheGet(kind)
    \/ ReadQuery
    \/ ReadCacheSet

SpecRace == Init /\ [][NextRace]_vars

\* the handlers: records are created and updated with images, and read
NextHandlers ==
    \/ \E image \in FormImages \cup {NoUpload} : CreateNews(image)
    \/ \E image \in FormImages \cup {NoUpload} : CreateEvent(image)
    \/ \E image \in FormImages \cup {NoUpload} : CreateHole(image)
    \/ \E mode \in UpdateModes, image \in FormImages : UpdateNews(mode, image, NoSlug)
    \/ \E mode \in UpdateModes, image \in FormImages : UpdateEvent(mode, image, NoSlug)
    \/ \E mode \in UpdateModes, image \in FormImages : UpdateHole(mode, image)
    \/ SaveValidate
    \/ SaveMkdir
    \/ SaveCreate
    \/ SaveCopy
    \/ SaveReopen
    \/ SaveRevalidate
    \/ SaveStat
    \/ CreateAfterSave
    \/ UpdateAfterSave
    \/ GetHoles
    \/ GetHole
    \/ GetNews
    \/ \E slug \in Slugs : GetNewsBySlug(slug)
    \/ GetNewsByID
    \/ GetEvents
    \/ \E slug \in Slugs : GetEventBySlug(slug)
    \/ GetEventByID
    \/ GetPosts

SpecHandlers == Init /\ [][NextHandlers]_vars

\* articles are created, given other slugs, and read by id and by slug
NextSlug ==
    \/ CreateNews(NoUpload)
    \/ CreateEvent(NoUpload)
    \/ \E mode \in {"fields", "delete_image"}, slug \in Slugs \cup {NoSlug} :
         UpdateNews(mode, NoUpload, slug)
    \/ \E mode \in {"fields", "delete_image"}, slug \in Slugs \cup {NoSlug} :
         UpdateEvent(mode, NoUpload, slug)
    \/ GetNews
    \/ \E slug \in Slugs : GetNewsBySlug(slug)
    \/ GetNewsByID
    \/ GetEvents
    \/ \E slug \in Slugs : GetEventBySlug(slug)
    \/ GetEventByID

SpecSlug == Init /\ [][NextSlug]_vars

\* the holes are listed and put in another order
NextReorder ==
    \/ \E hole_ids \in HoleLists : ReorderHoles(hole_ids)
    \/ GetHoles

SpecReorder == Init /\ [][NextReorder]_vars

\* the URL rewriter alone, on every stored value under every base
NextURL ==
    \/ \E imageURL \in StoredValues, baseURL \in BaseURLs :
         PrependBaseURLCall(imageURL, baseURL)
    \/ PrependBaseURLAgain

SpecURL == Init /\ [][NextURL]_vars

(* ------------------------------------------------------------------ *)
(* Properties                                                          *)
(* ------------------------------------------------------------------ *)
SaveDone == call.op = "SaveImage" /\ call.pc = "done"

SaveReturned == SaveDone /\ call.err = "ok"

SaveFailed == SaveDone /\ call.err # "ok"

\* the signature rules of the supported formats, on the bytes themselves
JpegRule(b) == BLen(b) >= 3 /\ At(b, 0) = 255 /\ At(b, 1) = 216 /\ At(b, 2) = 255

PngRule(b) ==
    BLen(b) >= 4 /\ At(b, 0) = 137 /\ At(b, 1) = 80 /\ At(b, 2) = 78 /\ At(b, 3) = 71

WebpRule(b) ==
    /\ BLen(b) >= 12
    /\ <<At(b, 0), At(b, 1), At(b, 2), At(b, 3)>> = <<82, 73, 70, 70>>
    /\ <<At(b, 8), At(b, 9), At(b, 10), At(b, 11)>> = <<87, 69, 66, 80>>

HeicRule(b) ==
    /\ BLen(b) >= 12
    /\ <<At(b, 4), At(b, 5), At(b, 6), At(b, 7)>> = <<102, 116, 121, 112>>
    /\ <<At(b, 8), At(b, 9), At(b, 10), At(b, 11)>>
         \in { <<104, 101, 105, 99>>, <<109, 105, 102, 49>> }

SupportedSignature(b) == JpegRule(b) \/ PngRule(b) \/ WebpRule(b) \/ HeicRule(b)

\* the files directly inside the directory of a category
InCategory(paths, subfolder) ==
    { q \in paths : Dir(q) = <<"uploads", "/">> \o subfolder }

\* C1: whenever SaveImage returns a result, the file at result.Path exists
\* and the bytes on disk pass the whole of ValidateImageFile, magic bytes
\* included, under the generated name and the declared size.
C1_ReturnedFileIsValid ==
    SaveReturned =>
        /\ call.result.Path \in DOMAIN files
        /\ LET onDisk == files[call.result.Path]
               header == [Filename |-> call.result.Filename,
                          Size |-> call.header.Size]
           IN  /\ ValidateImageFile(OpenFile(onDisk), header, TRUE, TRUE).err = "ok"
               /\ SupportedSignature(onDisk)

\* a result was returned for a file that was damaged after the write
C1_Witness == SaveReturned /\ call.faulted /\ call.result.Path \in DOMAIN files

\* C2: whenever SaveImage returns an error, the category directory holds
\* exactly the files it held when the call began.
C2_NoFileLeftOnError ==
    SaveFailed =>
        InCategory(DOMAIN files, call.subfolder)
          = InCategory(call.before, call.subfolder)

C4_TruncationIsCaught ==
    SaveReturned =>
        /\ call.result.Path \in DOMAIN files
        /\ BLen(files[call.result.Path]) >= BLen(call.upload)

Validated ==
    call.op \in {"ValidateImageFile", "ValidateImageBuffer"} /\ call.pc = "done"

Accepted == Validated /\ call.err = "ok"

DeclaredExt == ToLower(Ext(call.header.Filename))

SizeInRange == 0 < call.header.Size /\ call.header.Size <= MaxImageSize

\* C5: ValidateImageFile and ValidateImageBuffer accept only bytes that
\* satisfy the signature rule of JPEG, PNG, WebP or HEIC, whatever the name
\* and the declared size.
C5_AcceptedBytesCarryASignature == Accepted => SupportedSignature(call.upload)

\* bytes the sniffer does not recognise were accepted under .heic
C5_Witness ==
    /\ Accepted
    /\ DeclaredExt = <<".", "heic">>
    /\ DetectContentType(call.buffer) \notin allowedMimeTypes

\* the signature rule of the format an extension names
RuleOfExt(ext, b) ==
    CASE ext \in { <<".", "jpg">>, <<".", "jpeg">> } -> JpegRule(b)
      [] ext = <<".", "png">> -> PngRule(b)
      [] ext = <<".", "webp">> -> WebpRule(b)
      [] ext = <<".", "heic">> -> HeicRule(b)
      [] OTHER -> FALSE

\* C6: an accepted file's extension belongs to the format its bytes prove;
\* bytes of one supported format under the extension of another are rejected.
C6_ExtensionMatchesContent == Accepted => RuleOfExt(DeclaredExt, call.upload)

\* C7: under the extension .heic with a size in range, ValidateImageFile
\* accepts exactly when bytes 4-7 are 'ftyp' and bytes 8-11 are 'heic' or
\* 'mif1'; under any other allowed extension a sniffed type outside the
\* allowed set is rejected as a content type that is not allowed.
C7_HeicCheckAloneDecides ==
    ( /\ call.op = "ValidateImageFile" /\ call.pc = "done"
      /\ SizeInRange
      /\ call.err \notin {"failed to read file", "failed to reset file pointer"} )
    => /\ DeclaredExt = <<".", "heic">>
            => (call.err = "ok" <=> HeicRule(call.upload))
       /\ ( /\ DeclaredExt \in allowedExtensions \ { <<".", "heic">> }
            /\ DetectContentType(Take(call.upload, SniffLen)) \notin allowedMimeTypes )
            => call.err = "content type is not allowed"

\* C8: a declared size of 0 or above 5 MiB is rejected as empty or too
\* large, and a disallowed extension as such, with no Read made on the
\* source and its offset where it was.
C8_SizeAndExtensionRejectBeforeAnyRead ==
    (call.op = "ValidateImageFile" /\ call.pc = "done") =>
        /\ call.header.Size > MaxImageSize => call.err = "file size exceeds maximum"
        /\ call.header.Size = 0 => call.err = "file is empty"
        /\ (SizeInRange /\ DeclaredExt \notin allowedExtensions)
              => call.err = "file extension is not allowed"
        /\ call.err \in {"file size exceeds maximum", "file is empty",
                         "file extension is not allowed"}
              => call.file.reads = 0 /\ call.file.pos = 0

\* a well-formed JPEG under an allowed name is turned away for its declared size
C8_Witness ==
    /\ call.op = "ValidateImageFile" /\ call.pc = "done"
    /\ call.header.Size > MaxImageSize
    /\ JpegRule(call.upload)
    /\ DeclaredExt \in allowedExtensions

\* C9: the upload is at offset 0 again when ValidateImageFile has accepted
\* it, and a SaveImage that returns a result has stored the whole upload,
\* from its first byte (unless the file was damaged after the write).
C9_ValidationDoesNotConsume ==
    /\ (call.op = "SaveImage" /\ call.pc = "mkdir")
          => call.file.pos = 0 /\ call.file.reads = 1
    /\ (SaveReturned /\ ~call.faulted)
          => /\ call.result.Path \in DOMAIN files
             /\ files[call.result.Path] = call.upload

\* an upload longer than the sniffed prefix was stored
C9_Witness ==
    /\ SaveReturned /\ ~call.faulted
    /\ BLen(call.upload) > SniffLen
    /\ call.result.Path \in DOMAIN files

Deleted == call.op = "DeleteImage" /\ call.pc = "done"

\* the URL of a file SaveImage has named
IsAssetURL(url) ==
    \E subfolder \in Categories, n \in 1..made, ext \in allowedExtensions :
        url = <<"/", "uploads", "/">> \o subfolder \o <<"/">> \o NewFilename(n, ext)

\* C10: DeleteImage on the empty URL or on a URL under which nothing exists
\* succeeds and leaves the disk as it was; so does a DeleteImage that
\* repeats, on the same URL, a DeleteImage that has just succeeded.
C10_DeleteIsIdempotent ==
    Deleted =>
        /\ (call.url = <<>> \/ Tail(call.url) \notin call.before)
              => call.err = "ok" /\ (DOMAIN files) \cup dirs = call.before
        /\ call.again
              => call.err = "ok" /\ (DOMAIN files) \cup dirs = call.before

\* a stored file's URL was deleted a second time
C10_Witness == Deleted /\ call.again /\ IsAssetURL(call.url)


(* ------------------------------------------------------------------ *)
(* C11, C12: PrependBaseURL                                            *)
(* ------------------------------------------------------------------ *)
\* C11: PrependBaseURL is a fixed point on its own output: applying it to
\* its result with the same base gives that result again, for every stored
\* value and base.
C11_ReapplyIsFixedPoint ==
    rewrite.applied = 2 => rewrite.out = rewrite.prev

\* the first occurrence of '/uploads/' in s starts at offset i
FirstMarkerAt(s, i) ==
    /\ i \in 0 .. (Len(s) - 3)
    /\ <<s[i + 1], s[i + 2], s[i + 3]>> = <<"/", "uploads", "/">>
    /\ \A j \in 0 .. (i - 1) :
         <<s[j + 1], s[j + 2], s[j + 3]>> # <<"/", "uploads", "/">>

HasMarker(s) == \E i \in 0 .. (Len(s) - 3) : FirstMarkerAt(s, i)

StartsWithScheme(s) ==
    /\ Len(s) >= 4
    /\ s[1] \in {"http", "https"}
    /\ <<s[2], s[3], s[4]>> = <<":", "/", "/">>

\* C12: PrependBaseURL applies its rules in order: an empty stored value or
\* empty base returns the stored value; otherwise a value containing
\* '/uploads/' becomes base + the suffix from its first '/uploads/', scheme or
\* not; otherwise a value with an http:// or https:// prefix is returned
\* unchanged; otherwise the result is base + value.
C12_RulesInOrder ==
    rewrite.applied = 1 =>
      LET p == rewrite.stored
          b == rewrite.base
          r == rewrite.out
      IN  /\ (p = <<>> \/ b = <<>>) => r = p
          /\ (p # <<>> /\ b # <<>> /\ HasMarker(p)) =>
               \E i \in 0 .. (Len(p) - 3) :
                 /\ FirstMarkerAt(p, i)
                 /\ r = Concat(b, SubSeq(p, i + 1, Len(p)))
          /\ (p # <<>> /\ b # <<>> /\ ~HasMarker(p) /\ StartsWithScheme(p)) => r = p
          /\ (p # <<>> /\ b # <<>> /\ ~HasMarker(p) /\ ~StartsWithScheme(p)) =>
               r = Concat(b, p)

\* an absolute URL with '/uploads/' in it has been rewritten to the base
C12_Witness ==
    /\ rewrite.applied = 1
    /\ rewrite.base # <<>>
    /\ StartsWithScheme(rewrite.stored)
    /\ HasMarker(rewrite.stored)
    /\ rewrite.out # rewrite.stored


(* ------------------------------------------------------------------ *)
(* C13: two SaveImage calls at once                                    *)
(* ------------------------------------------------------------------ *)
Saving(c) == c.op = "SaveImage"

HasPath(c) == Saving(c) /\ c.fullPath # <<>>

WrittenNotYetReturned(c) == Saving(c) /\ c.pc \in {"open", "revalidate", "stat"}

ReturnedAsset(c) == Saving(c) /\ c.pc = "done" /\ c.err = "ok"

\* what one call sees of its own upload, whatever the other call has done
Undisturbed(c) ==
    /\ (Saving(c) /\ c.err = "failed to create upload directory") => c.oserr
    /\ (Saving(c) /\ c.pc \in {"create", "copy", "open", "revalidate", "stat"})
         => Join(UploadDir, c.subfolder) \in dirs
    /\ (Saving(c) /\ c.pc = "copy")
         => /\ c.filename # <<>>
            /\ c.fullPath \in DOMAIN files
            /\ files[c.fullPath] = NoBytes
    /\ WrittenNotYetReturned(c)
         => /\ c.fullPath \in DOMAIN files
            /\ files[c.fullPath] = c.upload
    /\ ReturnedAsset(c)
         => /\ c.result.Path = c.fullPath
            /\ c.result.Path \in DOMAIN files
            /\ files[c.result.Path] = c.upload

\* C13: two SaveImage calls that run at once, also into one category whose
\* directory does not exist yet, do not interfere: each has its file name
\* before it writes, the two never have the same path, the directory step of
\* one fails only on an error of the operating system and never because the
\* other has created the directory, and the file of each
\* returned asset holds the bytes of its own upload.
C13_ConcurrentSavesDoNotInterfere ==
    /\ (HasPath(call) /\ HasPath(other)) => call.fullPath # other.fullPath
    /\ Undisturbed(call)
    /\ Undisturbed(other)

\* two uploads with the same name, both called before uploads/ existed,
\* have both been returned for one category
C13_Witness ==
    /\ ReturnedAsset(call)
    /\ ReturnedAsset(other)
    /\ call.subfolder = other.subfolder
    /\ call.before = {} /\ other.before = {}
    /\ call.upload # other.upload
    /\ call.header.Filename = other.header.Filename


(* ------------------------------------------------------------------ *)
(* C14: cancellation while copying                                     *)
(* ------------------------------------------------------------------ *)
\* the call in progress is the one whose request was cancelled mid-copy
Cancelled == HasPath(call) /\ call.fullPath = cancelledAt

\* C14: when the request is cancelled while SaveImage is copying, the call
\* stops in the copy and removes the file it was writing: past the copy step
\* a cancelled call has failed and its file is not on disk.
C14_CancelledCopyIsRolledBack ==
    (Cancelled /\ call.pc \in {"open", "revalidate", "stat", "done"})
      => /\ call.pc = "done"
         /\ call.err # "ok"
         /\ call.fullPath \notin DOMAIN files


(* ------------------------------------------------------------------ *)
(* C15: the returned asset and its deletion                            *)
(* ------------------------------------------------------------------ *)
\* the regular files other than the one at path
AllBut(fs, path) == [q \in (DOMAIN fs) \ {path} |-> fs[q]]

\* C15: for every asset SaveImage returns, URL is '/uploads/<category>/<filename>',
\* Path is the file '<uploads root>/<category>/<filename>', Size is the
\* number of bytes of that file on disk, and DeleteImage(URL) removes the
\* file at Path and nothing else.
C15_AssetFieldsAndDeletion ==
    /\ SaveReturned =>
         LET a == call.result
             under == call.subfolder \o <<"/">> \o a.Filename
         IN  /\ a.Filename = call.filename
             /\ a.URL = <<"/", "uploads", "/">> \o under
             /\ a.Path = <<"uploads", "/">> \o under
             /\ a.Path \in DOMAIN files
             /\ a.Size = BLen(files[a.Path])
             /\ DeleteImage(files, dirs, a.URL, TRUE) =
                  [err |-> "ok", files |-> AllBut(files, a.Path), dirs |-> dirs]
    /\ (Deleted /\ call.err = "ok")
         => call.before \ ((DOMAIN files) \cup dirs) \subseteq
              (IF call.url = <<>> THEN {} ELSE {Tail(call.url)})

\* an asset is returned whose file on disk is shorter than the size declared
C15_Witness ==
    /\ SaveReturned
    /\ call.result.Size # call.header.Size
    /\ call.result.Size = BLen(files[call.result.Path])


(* ------------------------------------------------------------------ *)
(* C16: ReadAndValidateImage                                           *)
(* ------------------------------------------------------------------ *)
ReadAll == call.op = "ReadAndValidateImage" /\ call.pc = "done"

\* the bytes of the source and the size its header declares
ActualLength == BLen(call.upload)

DeclaredLength == call.header.Size

\* the prefix validation of the source passes when its reads succeed
PrefixValid ==
    ValidateImageFile(OpenFile(call.upload), call.header, TRUE, TRUE).err = "ok"

WholeValid == ValidateImageBuffer(call.upload, call.header.Filename) = "ok"

BytesOnlyIfAllPassed ==
    /\ call.err = "ok" <=> call.buffer # NoBytes
    /\ call.buffer # NoBytes =>
         /\ call.buffer = call.upload
         /\ ActualLength = DeclaredLength
         /\ PrefixValid
         /\ WholeValid

\* C16 as stated: ReadAndValidateImage returns the bytes only if the number
\* of bytes read equals the declared size and both validations pass; when
\* the lengths differ it returns a size-mismatch error and no bytes.
C16_MismatchAlwaysReported ==
    ReadAll =>
      /\ BytesOnlyIfAllPassed
      /\ ActualLength # DeclaredLength =>
           (call.buffer = NoBytes /\ call.err = "file size mismatch")

\* C16: ReadAndValidateImage returns the bytes only if the number of bytes
\* read equals the declared size and both validations pass; when the
\* lengths differ it returns no bytes, and the error is the size mismatch
\* unless the prefix validation, the seek or the read has failed before the
\* lengths are compared.
C16_BytesOnlyWhenSizesAgree ==
    ReadAll =>
      /\ BytesOnlyIfAllPassed
      /\ ActualLength # DeclaredLength =>
           /\ call.buffer = NoBytes
           /\ call.err # "ok"
           /\ (PrefixValid /\ call.err \notin {"failed to read file",
                                               "failed to reset file pointer"})
                => call.err = "file size mismatch"
           /\ ~PrefixValid =>
                call.err \in
                  { ValidateImageFile(OpenFile(call.upload), call.header, TRUE, TRUE).err,
                    "failed to read file", "failed to reset file pointer" }

\* a source that passes the prefix validation and is shorter than declared
C16_Witness ==
    /\ ReadAll
    /\ PrefixValid
    /\ ActualLength < DeclaredLength
    /\ call.err = "file size mismatch"
    /\ call.buffer = NoBytes


(* ------------------------------------------------------------------ *)
(* C17: ValidateImageBuffer against ValidateImageFile                  *)
(* ------------------------------------------------------------------ *)
BufferChecked == call.op = "ValidateImageBuffer" /\ call.pc = "done"

FileChecked == call.op = "ValidateImageFile" /\ call.pc = "done"

\* a non-empty byte sequence of at most 5 MiB
InScope(bytes) == BLen(bytes) > 0 /\ BLen(bytes) <= MaxImageSize

\* a source holding the bytes, declared with their length, whose reads succeed
FileAccepts(bytes, name) ==
    ValidateImageFile(OpenFile(bytes), [Filename |-> name, Size |-> BLen(bytes)],
                      TRUE, TRUE).err = "ok"

\* C17: for every non-empty byte sequence of at most 5 MiB and every
\* filename, ValidateImageBuffer accepts the bytes if and only if
\* ValidateImageFile accepts a source holding those bytes whose declared
\* size is their length.
C17_BufferAcceptsWhatFileAccepts ==
    /\ (BufferChecked /\ InScope(call.upload)) =>
         (call.err = "ok" <=> FileAccepts(call.upload, call.header.Filename))
    /\ (FileChecked /\ InScope(call.upload)
          /\ call.header.Size = BLen(call.upload)
          /\ call.err \notin {"failed to read file", "failed to reset file pointer"}) =>
         (call.err = "ok" <=>
            ValidateImageBuffer(call.upload, call.header.Filename) = "ok")

\* ValidateImageBuffer accepts HEIC bytes that the sniffer does not name an
\* allowed type, as ValidateImageFile does
C17_Witness ==
    /\ BufferChecked
    /\ InScope(call.upload)
    /\ call.err = "ok"
    /\ DetectContentType(call.upload) \notin allowedMimeTypes
    /\ FileAccepts(call.upload, call.header.Filename)


(* ------------------------------------------------------------------ *)
(* C18: short files                                                    *)
(* ------------------------------------------------------------------ *)
\* the reads of the call succeeded
ReadsSucceeded ==
    call.err \notin {"failed to read file", "failed to reset file pointer"}

\* C18: a candidate with a declared size in range, whose extension names the
\* format whose signature rule its bytes satisfy, is accepted, however short
\* it is: FF D8 FF D9 named a.jpg, and 12 or more bytes with RIFF at 0-3 and
\* WEBP at 8-11 named a.webp.
C18_SignatureSufficesHoweverShort ==
    (FileChecked /\ SizeInRange /\ ReadsSucceeded
       /\ RuleOfExt(DeclaredExt, call.upload))
      => call.err = "ok"


(* ------------------------------------------------------------------ *)
(* C19: image URLs in the responses of the read endpoints              *)
(* ------------------------------------------------------------------ *)
ReadAnswered == resp.handler \in ReadHandlers /\ resp.status = 200

\* C19: every image URL a read endpoint returns (holes, news, events,
\* posts; list and detail) is PrependBaseURL of the stored value with the
\* configured BASE_URL, whether the cache or the database answered.
C19_ReadsRewriteImageURLs ==
    ReadAnswered =>
      /\ Len(resp.images) = Len(resp.stored)
      /\ \A i \in 1..Len(resp.images) :
           resp.images[i] = PrependBaseURL(resp.stored[i], resp.base)

(* ------------------------------------------------------------------ *)
(* C20: the database write follows the image                           *)
(* ------------------------------------------------------------------ *)
\* this step writes a row of kind k whose image URL is new
WritesNewImageURL(k) ==
    /\ db'[k] # db[k]
    /\ db'[k].ImageURL \notin { <<>>, db[k].ImageURL }

\* this step is the return of a handler whose SaveImage call has failed
ReturnsAfterFailedSave ==
    /\ req.pc = "saving" /\ req'.pc = "idle"
    /\ call.op = "SaveImage" /\ call.pc = "done" /\ call.err # "ok"

WriteAfterSave ==
    /\ \A k \in Kinds :
         WritesNewImageURL(k) =>
           /\ req.kind = k
           /\ call.op = "SaveImage" /\ call.pc = "done" /\ call.err = "ok"
           /\ call.subfolder = <<k>>
           /\ db'[k].ImageURL = call.result.URL
    /\ ReturnsAfterFailedSave =>
         /\ db' = db
         /\ resp'.handler = req.handler
         /\ resp'.status = 400

\* C20: in every create and update handler (news, events, holes) a row with
\* a new image URL is written only by a step that follows SaveImage's
\* successful return for that image, and a handler whose SaveImage call has
\* failed answers with an error and writes nothing to the database.
C20_DatabaseWriteOnlyAfterSave == [][WriteAfterSave]_vars

\* CreateHole has stored a row with the URL of the image it has saved
C20_Witness ==
    /\ resp.handler = "CreateHole"
    /\ resp.status = 201
    /\ db["holes"].present
    /\ db["holes"].ImageURL # <<>>
    /\ resp.stored = << db["holes"].ImageURL >>
    /\ Tail(db["holes"].ImageURL) \in DOMAIN files


(* ------------------------------------------------------------------ *)
(* C21: the cache after an update of an article                        *)
(* ------------------------------------------------------------------ *)
\* this step is the successful return of UpdateNews or UpdateEvent
ArticleUpdated(k) ==
    /\ k \in {"news", "events"}
    /\ resp'.handler = HandlerOf("Update", k)
    /\ resp'.status = 200

\* the cache keys of the article of kind k in this step: its list pages, its
\* id, the slug it had before the step and the slug it has after it
KeysOfArticle(k) ==
    { <<k, "list">>, <<k, "id">>, <<k, "slug", db[k].Slug>>, <<k, "slug", db'[k].Slug>> }

AllInvalidated ==
    \A k \in {"news", "events"} :
      ArticleUpdated(k) => \A key \in KeysOfArticle(k) : ~cache'[key].hit

\* C21: when UpdateNews or UpdateEvent succeeds, also when it changes the
\* slug, the cache holds no entry of the article any more: not by id, not
\* under the slug it had before the update, not under the new slug, and no
\* list page.
C21_UpdateInvalidatesEveryEntry == [][AllInvalidated]_vars


(* ------------------------------------------------------------------ *)
(* C22: a create that fails after its image was saved                  *)
(* ------------------------------------------------------------------ *)
\* this step is the return of a create handler whose image was saved and
\* whose record is not created: the slug exists, or the insert fails
CreateFailsAfterSave ==
    /\ SaveReturnedTo("Create")
    /\ call.err = "ok"
    /\ resp'.handler = req.handler
    /\ resp'.status \in {422, 500}

SavedFileIsGone ==
    /\ call.result.Path \notin DOMAIN files'
    /\ DOMAIN files' \subseteq call.before

Reordered(status) == resp'.handler = "ReorderHoles" /\ resp'.status = status

DuplicateFree(ids) == \A i, j \in 1..Len(ids) : ids[i] = ids[j] => i = j

AllOrNothing ==
    /\ (Reordered(200) /\ DuplicateFree(reorder'.ids)) =>
         \A i \in 1..Len(reorder'.ids) :
           holeIndex'[reorder'.ids[i]].exists
             => holeIndex'[reorder'.ids[i]].hole_index = i
    /\ Reordered(500) =>
         /\ holeIndex' = holeIndex
         /\ cache'[<<"holes", "list">>] = cache[<<"holes", "list">>]

\* C23: ReorderHoles is all-or-nothing: when it succeeds on a list without
\* duplicates, every existing hole at 0-based position i of hole_ids has
\* hole_index i + 1; when an update or the commit fails, no hole_index has
\* changed and the holes:list entry is still in the cache.
C23_ReorderIsAllOrNothing == [][AllOrNothing]_vars

\* a reorder has failed after it had written a new index, with the list of
\* holes in the cache, and the holes are in the order an earlier reorder gave
C23_Witness ==
    /\ reorder.status = 500
    /\ reorder.applied > 0
    /\ resp.handler = "ReorderHoles"
    /\ cache[<<"holes", "list">>].hit
    /\ holeIndex["h1"].hole_index = 2
    /\ holeIndex["h2"].hole_index = 1
    /\ UpdateFirst(holeIndex, reorder.ids, reorder.applied) # holeIndex

(* ------------------------------------------------------------------ *)
(* C24: the middleware in front of the protected handlers               *)
(* ------------------------------------------------------------------ *)
\* the request of a step carried "Bearer <token>"
BearerOf(pass) == Len(pass.header) = 2 /\ pass.header[1] = "Bearer"

\* the request of a step reached a handler behind AuthMiddleware
ReachedProtected ==
    gate'.reached /\ gate'.method # "OPTIONS" /\ gate'.chain # "public"

\* the token of a reaching request validates, its user exists, an admin route has an admin
TokenInOrder ==
    ReachedProtected =>
        /\ BearerOf(gate')
        /\ gate'.header[2].good
        /\ users[gate'.header[2].UserID].state = "live"
        /\ gate'.chain = "admin" => gate'.header[2].Role = "admin"

\* a request with the unexpired token of a deleted user
TokenOfDeleted(pass, us) ==
    /\ pass.method # "OPTIONS" /\ pass.chain # "public"
    /\ BearerOf(pass) /\ pass.header[2].good
    /\ us[pass.header[2].UserID].state = "deleted"

DeletedIsRefused ==
    TokenOfDeleted(gate', users) => gate'.status = 401 /\ ~gate'.reached

UpdateUserReached == gate'.reached /\ gate'.handler = "UpdateUser"

\* the claims AuthMiddleware put into the context of that request
CallerOf(pass) == ValidateJWT(pass.header[2]).claims

\* the caller may update the row: an admin, or the user of the row
MayUpdate(pass) == CallerOf(pass).Role = "admin" \/ CallerOf(pass).UserID = pass.id

\* the row after the update the claim describes
UpdatedRow(pass, row) ==
    Updates(row,
            IF CallerOf(pass).Role = "admin" THEN pass.body.role ELSE "-",
            IF pass.body.password = "-" THEN "-" ELSE HashPassword(pass.body.password))

UpdateUserAnswers ==
    UpdateUserReached =>
        /\ ~gate'.panicked
        /\ gate'.status # 0
        /\ (gate'.status = 403) = ~MayUpdate(gate')
        /\ gate'.status = 200 => users' = [users EXCEPT ![gate'.id] = UpdatedRow(gate', @)]

\* C25: UpdateUser, reached through the authenticated route chain, obtains the
\* claims of the caller from the request context, applies the update for an admin or
\* for the user of the row and answers 403 otherwise, drops the role field of a
\* non-admin and stores a password only as its hash
C25_UpdateUserUsesCallerClaims == [][UpdateUserAnswers]_vars

(* ------------------------------------------------------------------ *)
(* C26: the pages of GetPosts without a type                            *)
(* ------------------------------------------------------------------ *)
\* the request of the listing, asked for page p instead, both queries succeeding
PageAt(p) ==
    PostsOf("", p, listing.limitStr, listing.news, listing.events, TRUE, TRUE)

\* pages 1..n of the listing one after the other
RECURSIVE PagesUpTo(_)
PagesUpTo(n) == IF n = 0 THEN <<>> ELSE PagesUpTo(n - 1) \o PageAt(Itoa(n)).posts

\* the published posts of the two tables
PublishedPosts == Published(listing.news) \o Published(listing.events)

NewestFirst(posts) ==
    \A i, j \in 1..Len(posts) : i < j => posts[i].CreatedAt >= posts[j].CreatedAt

\* every post of all once in posts, and nothing else
ExactlyOnce(posts, all) ==
    /\ Len(posts) = Len(all)
    /\ \A i \in 1..Len(all) : \E j \in 1..Len(posts) : posts[j] = all[i]

\* the listing is an answered request without a type
Combined == listing.type = "" /\ (listing.answer.status = 200 \/ listing.answer.panicked)

PagesPartition ==
    LET limit == LimitOf(listing.limitStr)
        total == Len(PublishedPosts)
        pages == (total + limit - 1) \div limit
    IN  /\ \A p \in 1..pages : PageAt(Itoa(p)).status = 200
                                /\ PageAt(Itoa(p)).meta.TotalPages = pages
        /\ NewestFirst(PagesUpTo(pages))
        /\ ExactlyOnce(PagesUpTo(pages), PublishedPosts)

EmptyBeyondLast ==
    LET limit == LimitOf(listing.limitStr)
        pages == (Len(PublishedPosts) + limit - 1) \div limit
    IN  Exceeds(PageOf(listing.pageStr), pages) =>
            listing.answer.status = 200 /\ listing.answer.posts = <<>>

\* C26: GetPosts without a type returns the published news and events merged and
\* ordered newest first; pages 1..total_pages of a fixed limit are disjoint, in order
\* and hold every published post exactly once, total_pages is ceil(total / limit),
\* and a page beyond the last one is empty and not an error
C26_PagesPartitionThePosts == Combined => PagesPartition /\ EmptyBeyondLast

\* the part of it about the pages 1..total_pages alone, which holds
PagesUpToLastPartition == Combined => PagesPartition

(* ------------------------------------------------------------------ *)
(* C29: the bounds of the slice of GetPosts                             *)
(* ------------------------------------------------------------------ *)
\* 0 <= start <= end <= n for two 64-bit values
BoundsWithin(start, end, n) ==
    /\ ~IsNegative(start) /\ ~IsNegative(end)
    /\ IsSmall(start) /\ IsSmall(end)
    /\ Small(start) <= Small(end)
    /\ Small(end) <= n

\* C29: for every page the parser accepts and every limit in 1..100 GetPosts slices
\* the combined list with 0 <= start <= end <= len(allPosts), the offset being
\* computed in 64-bit arithmetic
C29_SliceBoundsAreInRange ==
    Combined =>
        /\ ~listing.answer.panicked
        /\ BoundsWithin(listing.answer.start, listing.answer.end, Len(PublishedPosts))

(* ------------------------------------------------------------------ *)
(* C27: stored image URLs and the files on disk                         *)
(* ------------------------------------------------------------------ *)
\* the file an image URL is served from
FileOfURL(url) == Join(<<".">>, TrimSlash(url))

\* every image URL of a row has its file
ImagesOnDisk(d, fs) ==
    \A k \in Kinds :
        d[k].present /\ d[k].ImageURL # <<>> => FileOfURL(d[k].ImageURL) \in DOMAIN fs

\* the step is an update that answers 500: its db.Save failed
UpdateSaveFailed ==
    /\ resp'.status = 500
    /\ resp'.handler \in { HandlerOf("Update", k) : k \in Kinds }

FailedSaveKeepsImage ==
    UpdateSaveFailed =>
        /\ db' = db
        /\ \A k \in Kinds :
             db[k].present /\ db[k].ImageURL # <<>> /\ FileOfURL(db[k].ImageURL) \in DOMAIN files
                 => FileOfURL(db[k].ImageURL) \in DOMAIN files'

\* C27: after any sequence of create, update and delete requests on news, events and
\* holes, failed database writes included, every non-empty image URL of a record
\* that is not deleted has its file on disk, and an update whose database save fails
\* leaves the stored URL and its file as they were
C27_StoredImagesStayOnDisk == [][ImagesOnDisk(db', files') /\ FailedSaveKeepsImage]_vars

(* ------------------------------------------------------------------ *)
(* C28: a cached read beside an update or delete of the record          *)
(* ------------------------------------------------------------------ *)
\* no request is in progress
AllCompleted == reader.pc = "idle" /\ Quiet

\* the entry of the record of a kind is absent or holds the row of the database
EntryIsCurrent(kind) ==
    cache[<<kind, "id">>].hit => cache[<<kind, "id">>].items = Items(db, kind)

\* C28: when a cached read of a record (GetHole, GetNewsByID, GetEventByID) runs
\* beside an update or delete of that record, then once both have completed the
\* cache entry of the record is absent or equal to the row in the database
C28_NoStaleEntryAfterRace == AllCompleted => \A kind \in Kinds : EntryIsCurrent(kind)

(* ------------------------------------------------------------------ *)
(* C30: what DeleteImage can remove                                     *)
(* ------------------------------------------------------------------ *)
\* a path below ./uploads/<category>/
UnderUploadRoot(path) ==
    LET es == SplitPath(path)
    IN  Len(es) >= 3 /\ es[1] = <<"uploads">>

\* the step is a call of DeleteImage
DeleteImageStep == call.pc = "idle" /\ call'.op = "DeleteImage" /\ call'.pc = "done"

\* what the step took from the disk
Removed == ((DOMAIN files) \cup dirs) \ ((DOMAIN files') \cup dirs')

RemovesOnlyStoredFile ==
    DeleteImageStep =>
        /\ Cardinality(Removed) <= 1
        /\ \A path \in Removed : path \in DOMAIN files /\ UnderUploadRoot(path)

\* C30: for every input string DeleteImage removes at most one file and only a file
\* under the upload root ./uploads/<category>/; a URL with '..' segments, one that
\* names a directory, or one with scheme and host removes nothing outside it
C30_DeleteStaysUnderUploadRoot == [][RemovesOnlyStoredFile]_vars

====
